---- MODULE Spec2Model ----
(***************************************************************************)
(* A model of the saw runtime core: the simple table, the sharded memory   *)
(* table with its collect table and its inspection, the sliding window,    *)
(* the hub, the batch runner, the metrics registry, the quantile sketch    *)
(* and resource paths.                                                     *)
(***************************************************************************)
EXTENDS Integers, Sequences, FiniteSets, TLC

(***************************************************************************)
(* Bounds of the model.                                                    *)
(***************************************************************************)
\* total number of Emit / Inspect calls started on the memory table
MaxOps == 2
\* TableSpec.NumShards of the memory table
NumShards == 2
\* PersistentResource.NumShards of a sharded persistent target
PersistShards == 3

\* WindowSpec.WindowSize
WindowSize == 2
\* the sequence numbers SeqFunc returns are 0..MaxSeq
MaxSeq == 5
\* total number of Emit calls started on the window
MaxWinOps == 3
\* Hub.Register calls
MaxRegs == 2
\* Hub.Publish calls
MaxPubs == 3
\* BatchSpec.NumShards and the shard count of the input are 1..MaxAlloc
MaxAlloc == 7
\* records in an input shard of the first batch
RecsPerShard == 2
\* ReportInt / ReportFloat calls
MaxReports == 3
\* Add calls made through the variables returned
MaxVarAdds == 2
\* AddMetric calls made on one quantile state
MaxAdds == 3
\* Quantile.Get is called with 0..MaxBuckets buckets
MaxBuckets == 4
\* keys in the list given to InspectSet
MaxSetKeys == 2
\* CollectTable.Emit calls started on a collect table used on its own
MaxCollectOps == 3
\* CollectTable.Result calls made on it
MaxCollectResults == 2
\* segments in the path part of a resource path
MaxSegs == 2
\* the hash of a key is one of -MaxHash..MaxHash
MaxHash == 8
\* a table has 1..MaxTableShards shards
MaxTableShards == 3
\* calls one method makes with the key
MaxShardCalls == 2
\* levels of the sample stack mergeSampleStack is called on
MaxLevels == 2
\* MergeFrom calls made on a quantile state itself
MaxMerges == 1

\* the goroutines that feed and inspect the memory table
Procs == {1, 2}
Shards == 0..(NumShards - 1)
Keys == {"a", "b", "c"}
\* the numbers fed (the word count example feeds 1.0)
Values == {1}

\* Go's % on int (truncated division): the sign follows the dividend.
GoMod(a, b) == IF a >= 0 THEN a % b ELSE 0 - ((0 - a) % b)

\* TableSpec.KeyHashFunc: a fixed hash of the three keys.
KeyHash(k) == CASE k = "a" -> 4 [] k = "b" -> 1 [] OTHER -> 2

\* shardIdx := tbl.spec.KeyHashFunc(kv.Key) % len(tbl.shards)
ShardOf(k) == GoMod(KeyHash(k), NumShards)

\* errors are triples <<kind, key, n>>; NoErr is Go's nil error
NoErr == <<"nil", "", 0>>
\* a nil interface{} value
NoVal == -1
\* no entry in the items map
NoItem == [id |-> 0, cur |-> 0]

VARIABLES
    itemKind,     \* "sum": ItemFactoryOf(&Sum{}); "any": an arbitrary factory and saw
    items,        \* items[s][k]: SimpleTable.items of shard s
    banned,       \* banned[s][k]: SimpleTable.banned of shard s
    numKeysVar,   \* numKeysVar[s]: the "keys" metric as added to by shard s
    errVar,       \* the "errors" metric of the table
    locks,        \* locks[s]: MemTable.locks[s] is held
    th,           \* th[t]: the goroutine's position and locals
    ops,          \* number of calls started
    factoryCalls, \* factoryCalls[k]: calls of spec.ItemFactory(name, k)
    created,      \* created[k]: saws the factory returned for k
    active,       \* active[k]: calls in progress into the saw of k
    fedSum,       \* fedSum[k]: sum of the values of the Emit calls that returned nil
    fedKeys,      \* keys of the Emit calls started
    persist,      \* spec.PersistentResource: -1 no spec, 0 unsharded, n > 0 shards
    fin,          \* the MemTable.Result call: position, finalErr, collectedErr, resultMap
    sh,           \* sh[s]: the forEachShard goroutine of shard s and its locals
    coll,         \* the CollectTable made by MemTable.Result
    writers,      \* writers[i]: the DatumWriter of persistent shard i
    finCalls,     \* finCalls[k]: Result calls made on the saw of k
    childOut,     \* childOut[k]: what the saw of k returned from Result
    collFed,      \* collFed[k]: CollectTable.Emit calls made with key k
    overlap,      \* an Emit was in progress when Result was called, or was called after it
    win,          \* the Window: frames, startSeq, latestSeq, startIdx, hasData
    winMu,        \* Window.mu is held
    maxSeqAdvance,\* WindowSpec.MaxSeqAdvance
    droppedCount, \* the droppedCount metric
    droppedRecs,  \* number of out-of-window datums prepareFrame has turned away
    wth,          \* wth[t]: a goroutine calling Window.Emit or Window.Result
    winOps,       \* number of Window.Emit calls started
    nextFrame,    \* number of frames the FrameFactory has returned
    pending,      \* frames whose asyncFinalize goroutine has not finished
    scheduled,    \* every frame ever passed to asyncFinalize
    hubTopics,    \* Hub.topics: topic id -> the topic's subscribers, in order
    topicCount,   \* topicCount[id]: the count metric of topic id
    deadLetterVar,\* Hub.deadLetterVar
    pub,          \* pub[p]: a goroutine calling Hub.Publish
    regOps,       \* number of Hub.Register calls made
    pubCalls,     \* pubCalls[id]: Hub.Publish calls made with topic id
    emitCalls,    \* emitCalls[s]: Emit calls the hub has made on subscriber s
    al,           \* runSingleBatch: the loop that deals shards or queues out
    bcfg,         \* bcfg[b]: the BatchSpec of batch b
    runner,       \* position of RunBatch
    prod,         \* prod[b][i]: the goroutine runSingleBatch starts for one run
    queues,       \* queues[b][i][j]: queue j of the Par of that goroutine
    wgTasks,      \* QueueGroup.waitGroup: tasks scheduled and not done
    ran,          \* ran[b][i][j]: the tasks the queue has run, in order
    readRecs,     \* the records ReadDatum has returned
    late,         \* sends on and receives from a closed queue
    expvars,      \* the variables expvar has published, in order: name, kind, value
    varLock,      \* varLock: the goroutine that holds it, 0 when free
    mth,          \* mth[p]: a goroutine calling ReportInt or ReportFloat
    handles,      \* the variables ReportInt / ReportFloat have returned, and to whom
    addsVia,      \* addsVia[p][n]: Add(1) calls p has made on a variable it got for n
    reportOps,    \* number of ReportInt / ReportFloat calls started
    varAddOps,    \* number of Add calls made
    qs,           \* qs[i]: QuantileState i
    qadded,       \* qadded[i]: the metrics AddMetric was called with on state i, in order
    qsnap,        \* the Quantile that QuantileState.Result returned
    qout,         \* what Quantile.Get or Quantile.At returned on it
    qmrg,         \* the two merges made on copies: 1 from 2, and 2 from 1
    qmout,        \* what Quantile.Get returned on the two merged states
    insp,         \* the Inspect / InspectSet / InspectAll call on the memory table
    ish,          \* ish[s]: the turn of forEachShard for shard s
    cbErrs,       \* the errors the InspectCallback has returned, in order
    cbOk,         \* number of times the InspectCallback has returned nil
    cbKeys,       \* the keys the InspectCallback was called with
    lateCalls,    \* callback calls made after a callback had returned an error
    ctab,         \* a CollectTable of its own: len(tbl.shards), at first and now; metrics
    cwr,          \* cwr[i]: shard writer i of it: its mutex, Close and WriteDatum calls
    cfeed,        \* cfeed[p]: a goroutine calling CollectTable.Emit
    cres,         \* the goroutine calling CollectTable.Result
    collectOps,   \* number of CollectTable.Emit calls started
    rp,           \* a resource path: the string, the ResourceSpec parsed, its String()
    frameFactoryKind, \* "clean": FrameFactory returns a nil Saw with an error; "any": it may return both
    latestOut,    \* what the last Window.LatestFrame call returned
    sx,           \* a key's hash, a table's shard count and the shard indexes computed from them
    qinto,        \* the MergeFrom calls made on state 1 itself with state 2: how many, the last error
    fx            \* one call of QuantileState.collapse or mergeSampleStack: arguments and outcome

tableVars == <<itemKind, items, banned, numKeysVar, errVar, locks>>
procVars == <<th, ops>>
histVars == <<factoryCalls, created, active, fedSum, fedKeys>>
finVars == <<persist, fin, sh, coll, writers, finCalls, childOut, collFed>>
memVars == <<tableVars, procVars, histVars, finVars, overlap>>
winVars == <<win, winMu, maxSeqAdvance, droppedCount, droppedRecs, wth, winOps, nextFrame, pending,
            scheduled, frameFactoryKind, latestOut>>
hubVars == <<hubTopics, topicCount, deadLetterVar, pub, regOps, pubCalls, emitCalls>>
allocVars == <<al>>
batchVars == <<bcfg, runner, prod, queues, wgTasks, ran, readRecs, late>>
metricVars == <<expvars, varLock, mth, handles, addsVia, reportOps, varAddOps>>
quantVars == <<qs, qadded, qsnap, qout, qmrg, qmout>>
inspVars == <<insp, ish, cbErrs, cbOk, cbKeys, lateCalls>>
collectVars == <<ctab, cwr, cfeed, cres, collectOps>>
pathVars == <<rp>>
extraVars == <<sx, fx, qinto>>
moreVars == <<metricVars, quantVars, inspVars, collectVars, pathVars, extraVars>>
restVars == <<hubVars, allocVars, batchVars, moreVars>>
nonHubVars == <<memVars, winVars, allocVars, batchVars, moreVars>>
nonAllocVars == <<memVars, winVars, hubVars, batchVars, moreVars>>
nonBatchVars == <<memVars, winVars, hubVars, allocVars, moreVars>>
coreVars == <<memVars, winVars, hubVars, allocVars, batchVars>>
nonMetricVars == <<coreVars, quantVars, inspVars, collectVars, pathVars, extraVars>>
nonQuantVars == <<coreVars, metricVars, inspVars, collectVars, pathVars, extraVars>>
nonCollectVars == <<coreVars, metricVars, quantVars, inspVars, pathVars, extraVars>>
nonPathVars == <<coreVars, metricVars, quantVars, inspVars, collectVars, extraVars>>
\* what an inspection leaves alone: all but the shard locks and its own state
nonInspVars == <<itemKind, items, banned, numKeysVar, errVar, procVars, histVars, finVars,
                 overlap, winVars, hubVars, allocVars, batchVars, metricVars, quantVars,
                 collectVars, pathVars, extraVars>>
nonExtraVars == <<coreVars, metricVars, quantVars, inspVars, collectVars, pathVars>>
vars == <<memVars, winVars, restVars>>

\* indexes of the DatumWriters a collect table may hold
PShards == 0..(PersistShards - 1)

Idle == [pc |-> "idle", key |-> "a", val |-> 0, saw |-> 0, tmp |-> 0,
         ret |-> NoErr, called |-> FALSE, n |-> 0]

(***************************************************************************)
(* The shard index of a key, for any TableSpec.KeyHashFunc                 *)
(***************************************************************************)
\* the integers a KeyHashFunc (func(saw.DatumKey) int) returns for the key
HashValues == (0 - MaxHash)..MaxHash
\* len(tbl.shards)
TableSizes == 1..MaxTableShards
\* the methods that compute a shard index
ShardCallers == {"MemTable.Emit", "MemTable.Inspect", "CollectTable.Emit"}

\* shardIdx := tbl.spec.KeyHashFunc(key) % len(tbl.shards)
ShardIdx(hash, n) == GoMod(hash, n)

\* tbl.shards[shardIdx], tbl.locks[shardIdx]: an index outside the slice panics
IndexOk(idx, n) == idx >= 0 /\ idx < n

SxIdle == [hash |-> 0, n |-> 1, calls |-> [c \in ShardCallers |-> <<>>], panicked |-> FALSE]

\* one call of Emit or Inspect with the key: the index is computed and used
ShardCall(c) ==
    /\ ~sx.panicked
    /\ Len(sx.calls[c]) < MaxShardCalls
    /\ LET idx == ShardIdx(sx.hash, sx.n)
       IN  sx' = [sx EXCEPT !.calls = [@ EXCEPT ![c] = Append(@, idx)],
                            !.panicked = ~IndexOk(idx, sx.n)]
    /\ UNCHANGED <<nonExtraVars, fx, qinto>>

(***************************************************************************)
(* Environment: the user's item factory, saws and callbacks.               *)
(***************************************************************************)
\* what spec.ItemFactory may return: TRUE a saw, FALSE an error.
\* ItemFactoryOf always returns a saw.
FactoryOutcomes == IF itemKind = "sum" THEN {TRUE} ELSE {TRUE, FALSE}

\* the error a child's Emit may return; Sum.Emit returns nil
EmitErrs(k) == IF itemKind = "sum" THEN {NoErr} ELSE {NoErr, <<"emit", k, 0>>}

\* tbl.locks[shardIdx].Lock() returns only when the mutex is free
LockNoWait(s) == TRUE
CanLock(s) == ~locks[s]

SetTh(t, r) == [th EXCEPT ![t] = r]

(***************************************************************************)
(* MemTable.Emit, with SimpleTable.Emit inlined in steps                   *)
(***************************************************************************)
\* SimpleTable.Emit: saw, ok := tbl.items[kv.Key]; then the banned lookup
EmitLookupNoBan(t, k, v) ==
    LET s == ShardOf(k)
        r == [Idle EXCEPT !.key = k, !.val = v]
    IN  IF items[s][k] # NoItem
        THEN [r EXCEPT !.pc = "feed", !.saw = items[s][k].id]
        ELSE [r EXCEPT !.pc = "factory"]
EmitLookup(t, k, v) ==
    LET s == ShardOf(k)
        r == [Idle EXCEPT !.key = k, !.val = v]
    IN  IF items[s][k] # NoItem
        THEN [r EXCEPT !.pc = "feed", !.saw = items[s][k].id]
        ELSE IF banned[s][k] # NoErr
             THEN [r EXCEPT !.pc = "unlock", !.ret = banned[s][k]]
             ELSE [r EXCEPT !.pc = "factory"]

\* MemTable.Emit: compute the shard, take its lock; SimpleTable.Emit looks the key up
EmitCall(t, k, v) ==
    /\ th[t].pc = "idle"
    /\ ops < MaxOps
    /\ CanLock(ShardOf(k))
    /\ locks' = [locks EXCEPT ![ShardOf(k)] = TRUE]
    /\ th' = SetTh(t, EmitLookup(t, k, v))
    /\ ops' = ops + 1
    /\ fedKeys' = fedKeys \cup {k}
    /\ overlap' = (overlap \/ fin.pc # "idle")
    /\ UNCHANGED <<itemKind, items, banned, numKeysVar, errVar>>
    /\ UNCHANGED <<factoryCalls, created, active, fedSum, finVars>>
    /\ UNCHANGED <<winVars, restVars>>

\* tbl.banned[kv.Key] = err
BanNothing(s, k, e) == banned
Ban(s, k, e) == [banned EXCEPT ![s][k] = e]

\* SimpleTable.Emit: call the factory; ban the key or install the saw
EmitFactory(t) ==
    /\ th[t].pc = "factory"
    /\ LET k == th[t].key
           s == ShardOf(k)
           n == factoryCalls[k] + 1
       IN  /\ factoryCalls' = [factoryCalls EXCEPT ![k] = n]
           /\ \E ok \in FactoryOutcomes :
                IF ok
                THEN /\ items' = [items EXCEPT ![s][k] = [id |-> n, cur |-> 0]]
                     /\ created' = [created EXCEPT ![k] = @ + 1]
                     /\ numKeysVar' = [numKeysVar EXCEPT ![s] = @ + 1]
                     /\ th' = SetTh(t, [th[t] EXCEPT !.pc = "feed", !.saw = n,
                                                     !.called = TRUE])
                     /\ UNCHANGED banned
                ELSE /\ banned' = Ban(s, k, <<"factory", k, n>>)
                     /\ th' = SetTh(t, [th[t] EXCEPT !.pc = "unlock",
                                                     !.ret = <<"factory", k, n>>,
                                                     !.called = TRUE])
                     /\ UNCHANGED <<items, created, numKeysVar>>
    /\ UNCHANGED <<itemKind, errVar, locks, ops, active, fedSum, fedKeys, finVars, overlap>>
    /\ UNCHANGED <<winVars, restVars>>

\* err = saw.Emit(kv) is entered; Sum.Emit reads sum.Current
EmitFeed(t) ==
    /\ th[t].pc = "feed"
    /\ LET k == th[t].key
           s == ShardOf(k)
       IN  /\ active' = [active EXCEPT ![k] = @ + 1]
           /\ th' = SetTh(t, [th[t] EXCEPT !.pc = "feeding", !.tmp = items[s][k].cur])
    /\ UNCHANGED <<tableVars, ops, factoryCalls, created, fedSum, fedKeys, finVars, overlap>>
    /\ UNCHANGED <<winVars, restVars>>

\* saw.Emit returns: Sum.Emit has written sum.Current; the errors metric
EmitFed(t) ==
    /\ th[t].pc = "feeding"
    /\ LET k == th[t].key
           s == ShardOf(k)
       IN  \E e \in EmitErrs(k) :
             /\ active' = [active EXCEPT ![k] = @ - 1]
             /\ th' = SetTh(t, [th[t] EXCEPT !.pc = "unlock", !.ret = e])
             /\ IF e = NoErr
                THEN /\ items' = [items EXCEPT ![s][k] =
                                    IF @.id = th[t].saw
                                    THEN [@ EXCEPT !.cur = th[t].tmp + th[t].val]
                                    ELSE @]
                     /\ fedSum' = [fedSum EXCEPT ![k] = @ + th[t].val]
                     /\ UNCHANGED errVar
                ELSE /\ errVar' = errVar + 1
                     /\ UNCHANGED <<items, fedSum>>
    /\ UNCHANGED <<itemKind, banned, numKeysVar, locks, ops, factoryCalls, created, fedKeys>>
    /\ UNCHANGED <<finVars, overlap>>
    /\ UNCHANGED <<winVars, restVars>>

\* the deferred tbl.locks[shardIdx].Unlock() and the return
EmitReturn(t) ==
    /\ th[t].pc = "unlock"
    /\ locks' = [locks EXCEPT ![ShardOf(th[t].key)] = FALSE]
    /\ th' = SetTh(t, Idle)
    /\ UNCHANGED <<itemKind, items, banned, numKeysVar, errVar, ops, histVars, finVars, overlap>>
    /\ UNCHANGED <<winVars, restVars>>

(***************************************************************************)
(* MemTable.Inspect, with SimpleTable.Inspect inlined                      *)
(***************************************************************************)
\* the error an InspectCallback may return
CallbackErrs(k) == {NoErr, <<"callback", k, 0>>}

\* MemTable.Inspect: take the shard lock; SimpleTable.Inspect returns 0, nil for a
\* key with no saw (the lock is released again), else the callback is entered
InspectCall(t, k) ==
    /\ th[t].pc = "idle"
    /\ ops < MaxOps
    /\ CanLock(ShardOf(k))
    /\ ops' = ops + 1
    /\ IF items[ShardOf(k)][k] = NoItem
       THEN UNCHANGED <<locks, th, active>>
       ELSE /\ locks' = [locks EXCEPT ![ShardOf(k)] = TRUE]
            /\ th' = SetTh(t, [Idle EXCEPT !.pc = "inspecting", !.key = k,
                                           !.saw = items[ShardOf(k)][k].id])
            /\ active' = [active EXCEPT ![k] = @ + 1]
    /\ UNCHANGED <<itemKind, items, banned, numKeysVar, errVar>>
    /\ UNCHANGED <<factoryCalls, created, fedSum, fedKeys, finVars, overlap>>
    /\ UNCHANGED <<winVars, restVars>>

\* the callback returns; SimpleTable.Inspect returns (0, err) or (1, nil); the
\* deferred Unlock
InspectEnd(t) ==
    /\ th[t].pc = "inspecting"
    /\ \E e \in CallbackErrs(th[t].key) :
         th' = SetTh(t, [Idle EXCEPT !.ret = e, !.n = IF e = NoErr THEN 1 ELSE 0])
    /\ active' = [active EXCEPT ![th[t].key] = @ - 1]
    /\ locks' = [locks EXCEPT ![ShardOf(th[t].key)] = FALSE]
    /\ UNCHANGED <<itemKind, items, banned, numKeysVar, errVar, ops>>
    /\ UNCHANGED <<factoryCalls, created, fedSum, fedKeys, finVars, overlap>>
    /\ UNCHANGED <<winVars, restVars>>

(***************************************************************************)
(* MemTable.Inspect / InspectSet / InspectAll through forEachShard         *)
(***************************************************************************)
\* the key lists given to InspectSet
KeyLists == UNION {[1..n -> Keys] : n \in 1..MaxSetKeys}

\* the orders in which a range over a map with the keys S may yield them
Orders(S) == {q \in [1..Cardinality(S) -> S] : \A i, j \in 1..Cardinality(S) :
                                                  q[i] = q[j] => i = j}

\* keysByShard[shardIdx] = append(keysByShard[shardIdx], key), for the keys of shard s
RECURSIVE KeysByShard(_, _)
KeysByShard(keys, s) ==
    IF keys = <<>> THEN <<>>
    ELSE (IF ShardOf(Head(keys)) = s THEN <<Head(keys)>> ELSE <<>>)
         \o KeysByShard(Tail(keys), s)

InspIdle == [pc |-> "idle", mode |-> "one", conc |-> FALSE, cursor |-> 0, total |-> 0,
             err |-> NoErr, n |-> 0, ret |-> NoErr]
IshIdle == [pc |-> "idle", todo |-> <<>>, key |-> "a", total |-> 0, err |-> NoErr]

\* MemTable.Inspect(key, callback): only the shard of the key is visited
InspectOne(k) ==
    /\ insp.pc = "idle"
    /\ insp' = [InspIdle EXCEPT !.pc = "run", !.cursor = ShardOf(k)]
    /\ ish' = [s \in Shards |-> IF s = ShardOf(k)
                                THEN [IshIdle EXCEPT !.pc = "wait", !.todo = <<k>>]
                                ELSE [IshIdle EXCEPT !.pc = "done"]]
    /\ UNCHANGED <<locks, cbErrs, cbOk, cbKeys, lateCalls>>
    /\ UNCHANGED nonInspVars

\* MemTable.InspectSet(keys, callback, concurrent): the keys are split by shard
InspectSetCall(keys, concurrent) ==
    /\ insp.pc = "idle"
    /\ insp' = [InspIdle EXCEPT !.pc = "run", !.mode = "set", !.conc = concurrent]
    /\ ish' = [s \in Shards |-> [IshIdle EXCEPT !.pc = "wait", !.todo = KeysByShard(keys, s)]]
    /\ UNCHANGED <<locks, cbErrs, cbOk, cbKeys, lateCalls>>
    /\ UNCHANGED nonInspVars

\* MemTable.InspectAll(callback, concurrent)
InspectAllCall(concurrent) ==
    /\ insp.pc = "idle"
    /\ insp' = [InspIdle EXCEPT !.pc = "run", !.mode = "all", !.conc = concurrent]
    /\ ish' = [s \in Shards |-> [IshIdle EXCEPT !.pc = "wait"]]
    /\ UNCHANGED <<locks, cbErrs, cbOk, cbKeys, lateCalls>>
    /\ UNCHANGED nonInspVars

\* forEachShard takes the lock of shard s: in turn when serial, in any order when
\* concurrent; SimpleTable.InspectAll ranges over tbl.items in some order
InspectShardLock(s) ==
    /\ insp.pc = "run"
    /\ ish[s].pc = "wait"
    /\ insp.conc \/ insp.cursor = s
    /\ CanLock(s)
    /\ locks' = [locks EXCEPT ![s] = TRUE]
    /\ \E order \in IF insp.mode = "all"
                    THEN Orders({k \in Keys : items[s][k] # NoItem})
                    ELSE {ish[s].todo} :
          ish' = [ish EXCEPT ![s].pc = "walk", ![s].todo = order]
    /\ UNCHANGED <<insp, cbErrs, cbOk, cbKeys, lateCalls>>
    /\ UNCHANGED nonInspVars

\* the next key of the shard: SimpleTable.Inspect returns 0, nil for a key without a
\* saw, else the callback is called
InspectVisit(s) ==
    /\ ish[s].pc = "walk"
    /\ IF ish[s].todo = <<>>
       THEN /\ ish' = [ish EXCEPT ![s].pc = "end"]
            /\ UNCHANGED <<cbKeys, lateCalls>>
       ELSE LET k == Head(ish[s].todo) IN
            IF items[s][k] = NoItem
            THEN /\ ish' = [ish EXCEPT ![s].todo = Tail(@)]
                 /\ UNCHANGED <<cbKeys, lateCalls>>
            ELSE /\ ish' = [ish EXCEPT ![s].todo = Tail(@), ![s].key = k, ![s].pc = "in"]
                 /\ cbKeys' = cbKeys \cup {k}
                 /\ lateCalls' = lateCalls + (IF cbErrs # <<>> THEN 1 ELSE 0)
    /\ UNCHANGED <<locks, insp, cbErrs, cbOk>>
    /\ UNCHANGED nonInspVars

\* the callback returns: nil counts the key, an error ends the walk of this shard
InspectVisited(s) ==
    /\ ish[s].pc = "in"
    /\ \E e \in CallbackErrs(ish[s].key) :
          IF e = NoErr
          THEN /\ ish' = [ish EXCEPT ![s].pc = "walk", ![s].total = @ + 1]
               /\ cbOk' = cbOk + 1
               /\ UNCHANGED cbErrs
          ELSE /\ ish' = [ish EXCEPT ![s].pc = "end", ![s].err = e]
               /\ cbErrs' = Append(cbErrs, e)
               /\ UNCHANGED cbOk
    /\ UNCHANGED <<locks, insp, cbKeys, lateCalls>>
    /\ UNCHANGED nonInspVars

\* the walk of shard s returns: atomic.AddInt64(&total, shardTotal), the unlock, and
\* when serial the return on an error or after the last shard, when concurrent
\* collectedErr.Store(err)
InspectShardEnd(s) ==
    /\ ish[s].pc = "end"
    /\ locks' = [locks EXCEPT ![s] = FALSE]
    /\ ish' = [ish EXCEPT ![s].pc = "done"]
    /\ LET total == insp.total + ish[s].total IN
       IF insp.conc
       THEN insp' = [insp EXCEPT !.total = total,
                                 !.err = IF ish[s].err # NoErr THEN ish[s].err ELSE @]
       ELSE IF ish[s].err # NoErr \/ insp.mode = "one" \/ s + 1 = NumShards
            THEN insp' = [insp EXCEPT !.total = total, !.pc = "done", !.n = total,
                                      !.ret = ish[s].err]
            ELSE insp' = [insp EXCEPT !.total = total, !.cursor = s + 1]
    /\ UNCHANGED <<cbErrs, cbOk, cbKeys, lateCalls>>
    /\ UNCHANGED nonInspVars

\* wg.Wait() returns; collectedErr.Load()
InspectJoin ==
    /\ insp.pc = "run"
    /\ insp.conc
    /\ \A s \in Shards : ish[s].pc = "done"
    /\ insp' = [insp EXCEPT !.pc = "done", !.n = insp.total, !.ret = insp.err]
    /\ UNCHANGED <<locks, ish, cbErrs, cbOk, cbKeys, lateCalls>>
    /\ UNCHANGED nonInspVars

InitInspIdle ==
    /\ insp = InspIdle
    /\ ish = [s \in Shards |-> IshIdle]
    /\ cbErrs = <<>>
    /\ cbOk = 0
    /\ cbKeys = {}
    /\ lateCalls = 0

(***************************************************************************)
(* Result maps (TableResultMap)                                            *)
(***************************************************************************)
EmptyMap == [k \in {} |-> 0]
Put(m, k, v) == [x \in (DOMAIN m) \cup {k} |-> IF x = k THEN v ELSE m[x]]

ShIdle == [pc |-> "idle", todo |-> {}, cur |-> "a", err |-> NoErr, ret |-> EmptyMap,
           lastErr |-> NoErr, toCollect |-> {}]
FinIdle == [pc |-> "idle", finalErr |-> NoErr, collectedErr |-> NoErr,
            resultMap |-> EmptyMap]
NoWriter == [opens |-> 0, closes |-> 0, recs |-> {}, writes |-> 0]
NoColl == [state |-> "none", n |-> 0, count |-> 0, errs |-> 0, lateFeeds |-> 0]
NoOut == [v |-> NoVal, e |-> NoErr]

(***************************************************************************)
(* NewCollectTable and CollectTable.Emit / CollectTable.Result             *)
(***************************************************************************)
\* numShards of NewCollectTable: PersistentResource.NumShards when Sharded(), else 1
CollectShardsIgnoreResource(p) == NumShards
CollectShards(p) == IF p > 0 THEN p ELSE 1

\* where DatumWriter(ctx, i) may fail: -1 is nowhere
OpenFailures == IF persist < 0 THEN {-1} ELSE {-1} \cup (0..(CollectShards(persist) - 1))

\* NewCollectTable without the loop that closes what was opened
NewCollectWritersLeftOpen(failAt) ==
    [i \in PShards |->
        IF persist < 0 \/ i >= CollectShards(persist) THEN writers[i]
        ELSE IF failAt < 0 \/ i < failAt THEN [writers[i] EXCEPT !.opens = @ + 1]
        ELSE writers[i]]

\* the writers after NewCollectTable: all opened, or those below failAt opened and closed
NewCollectWriters(failAt) ==
    [i \in PShards |->
        IF persist < 0 \/ i >= CollectShards(persist) THEN writers[i]
        ELSE IF failAt < 0 THEN [writers[i] EXCEPT !.opens = @ + 1]
        ELSE IF i < failAt THEN [writers[i] EXCEPT !.opens = @ + 1, !.closes = @ + 1]
        ELSE writers[i]]

\* shardIdx := tbl.spec.KeyHashFunc(datum.Key) % len(tbl.shards)
CollectShardOfMem(k) == ShardOf(k)
CollectShardOf(k) == GoMod(KeyHash(k), coll.n)

\* CollectTable.Result: close every shard writer, tbl.shards = nil
ClosedWriters ==
    [i \in PShards |-> IF i < coll.n THEN [writers[i] EXCEPT !.closes = @ + 1]
                       ELSE writers[i]]

(***************************************************************************)
(* A CollectTable used on its own: Emit and Result                         *)
(***************************************************************************)
\* the goroutines that feed the collect table
CProcs == {1, 2}

CFeedIdle == [pc |-> "idle", key |-> "a", idx |-> 0, late |-> FALSE]
CResIdle == [pc |-> "idle", n |-> 0, i |-> 0, calls |-> 0, returned |-> 0]
\* a shard writer NewCollectTable has opened
OpenWriter == [mu |-> FALSE, closes |-> 0, writes |-> 0, lateWrites |-> 0]

\* NewCollectTable(ctx, spec) returned a table of n shards
NewCollectTable(n) == [n0 |-> n, n |-> n, count |-> 0, errs |-> 0]

\* a panic ends the process
CollectCrashed == \E p \in CProcs : cfeed[p].pc = "panicked"

\* CollectTable.Emit: shardIdx := tbl.spec.KeyHashFunc(datum.Key) % len(tbl.shards)
\* panics on a division by zero when tbl.shards is nil
CollectEmitCall(p, k) ==
    /\ ~CollectCrashed
    /\ cfeed[p].pc = "idle"
    /\ collectOps < MaxCollectOps
    /\ collectOps' = collectOps + 1
    /\ cfeed' = [cfeed EXCEPT ![p] =
                   IF ctab.n = 0
                   THEN [CFeedIdle EXCEPT !.pc = "panicked", !.key = k,
                                          !.late = cres.returned > 0]
                   ELSE [CFeedIdle EXCEPT !.pc = "lock", !.key = k,
                                          !.idx = GoMod(KeyHash(k), ctab.n),
                                          !.late = cres.returned > 0]]
    /\ UNCHANGED <<ctab, cwr, cres>>
    /\ UNCHANGED nonCollectVars

\* shardDatumWriter.WriteDatum: shard.mu.Lock()
CollectEmitLock(p) ==
    /\ ~CollectCrashed
    /\ cfeed[p].pc = "lock"
    /\ ~cwr[cfeed[p].idx].mu
    /\ cwr' = [cwr EXCEPT ![cfeed[p].idx].mu = TRUE]
    /\ cfeed' = [cfeed EXCEPT ![p].pc = "write"]
    /\ UNCHANGED <<ctab, cres, collectOps>>
    /\ UNCHANGED nonCollectVars

\* EncodeValue and shard.internal.WriteDatum(datum), either of which may fail; the
\* deferred Unlock; tbl.countVar.Add(1), tbl.errVar.Add(1)
CollectEmitWrite(p) ==
    /\ ~CollectCrashed
    /\ cfeed[p].pc = "write"
    /\ \E ok \in BOOLEAN :
          /\ cwr' = [cwr EXCEPT ![cfeed[p].idx] =
                       [@ EXCEPT !.mu = FALSE,
                                 !.writes = IF ok THEN @ + 1 ELSE @,
                                 !.lateWrites = IF ok /\ cfeed[p].late THEN @ + 1 ELSE @]]
          /\ ctab' = [ctab EXCEPT !.count = @ + 1, !.errs = IF ok THEN @ ELSE @ + 1]
    /\ cfeed' = [cfeed EXCEPT ![p] = CFeedIdle]
    /\ UNCHANGED <<cres, collectOps>>
    /\ UNCHANGED nonCollectVars

\* CollectTable.Result is called: for _, shard := range tbl.shards
CollectResultCall ==
    /\ ~CollectCrashed
    /\ cres.pc = "idle"
    /\ cres.calls < MaxCollectResults
    /\ cres' = [cres EXCEPT !.pc = "closing", !.n = ctab.n, !.i = 0, !.calls = @ + 1]
    /\ UNCHANGED <<ctab, cwr, cfeed, collectOps>>
    /\ UNCHANGED nonCollectVars

\* shard.Close()
CollectResultClose ==
    /\ ~CollectCrashed
    /\ cres.pc = "closing"
    /\ cres.i < cres.n
    /\ cwr' = [cwr EXCEPT ![cres.i].closes = @ + 1]
    /\ cres' = [cres EXCEPT !.i = @ + 1]
    /\ UNCHANGED <<ctab, cfeed, collectOps>>
    /\ UNCHANGED nonCollectVars

\* a Result that leaves tbl.shards as it is
ShardsKept(n) == n
\* tbl.shards = nil
ShardsNil(n) == 0

\* tbl.shards = nil; return tbl.spec.PersistentResource, nil
CollectResultReturn ==
    /\ ~CollectCrashed
    /\ cres.pc = "closing"
    /\ cres.i = cres.n
    /\ ctab' = [ctab EXCEPT !.n = ShardsNil(@)]
    /\ cres' = [cres EXCEPT !.pc = "idle", !.returned = @ + 1]
    /\ UNCHANGED <<cwr, cfeed, collectOps>>
    /\ UNCHANGED nonCollectVars

InitCollectIdle ==
    /\ ctab = NewCollectTable(1)
    /\ cwr = [i \in PShards |-> OpenWriter]
    /\ cfeed = [p \in CProcs |-> CFeedIdle]
    /\ cres = CResIdle
    /\ collectOps = 0

(***************************************************************************)
(* MemTable.Result, with forEachShard(concurrent) and SimpleTable.Result   *)
(***************************************************************************)
EmitPcs == {"factory", "feed", "feeding", "unlock"}

\* what a child's Result may return; Sum.Result returns (Current, nil)
ResultOutcomes(s, k) ==
    IF itemKind = "sum"
    THEN {[v |-> items[s][k].cur, e |-> NoErr]}
    ELSE {[v |-> x, e |-> y] : x \in {items[s][k].cur, NoVal},
                               y \in {NoErr, <<"result", k, 0>>}}

\* SimpleTable.Result: if v == nil || err != nil { continue }
KeepsNil(o) == o.e = NoErr
Keeps(o) == ~(o.v = NoVal \/ o.e # NoErr)

\* the merge of retByShard into resultMap, shard by shard
MergedUpTo[n \in 0..NumShards] ==
    IF n = 0 THEN EmptyMap
    ELSE LET m == MergedUpTo[n - 1]
             r == sh[n - 1].ret
         IN  [k \in (DOMAIN m) \cup (DOMAIN r) |-> IF k \in DOMAIN r THEN r[k] ELSE m[k]]

\* the collect table is made (or fails to open) and one goroutine per shard starts
ResultStart ==
    /\ fin.pc = "idle"
    /\ \E failAt \in OpenFailures :
         /\ writers' = NewCollectWriters(failAt)
         /\ coll' = IF persist < 0 THEN coll
                    ELSE IF failAt < 0
                         THEN [coll EXCEPT !.state = "open", !.n = CollectShards(persist)]
                         ELSE [coll EXCEPT !.state = "failed"]
         /\ fin' = [fin EXCEPT !.pc = "running",
                               !.finalErr = IF failAt < 0 THEN NoErr
                                            ELSE <<"open", "", failAt>>]
    /\ sh' = [s \in Shards |-> [ShIdle EXCEPT !.pc = "lock"]]
    /\ overlap' = (overlap \/ \E t \in Procs : th[t].pc \in EmitPcs)
    /\ UNCHANGED <<tableVars, procVars, histVars, persist, finCalls, childOut, collFed>>
    /\ UNCHANGED <<winVars, restVars>>

\* tbl.locks[shardIdx].Lock(); shard.Result starts its range over tbl.items
ShardLock(s) ==
    /\ sh[s].pc = "lock"
    /\ CanLock(s)
    /\ locks' = [locks EXCEPT ![s] = TRUE]
    /\ sh' = [sh EXCEPT ![s] = [@ EXCEPT !.pc = "walk",
                                  !.todo = {k \in Keys : items[s][k] # NoItem}]]
    /\ UNCHANGED <<itemKind, items, banned, numKeysVar, errVar, procVars, histVars>>
    /\ UNCHANGED <<persist, fin, coll, writers, finCalls, childOut, collFed, overlap>>
    /\ UNCHANGED <<winVars, restVars>>

\* v, err = saw.Result(ctx) is entered for the next key of the range
ShardVisit(s, k) ==
    /\ sh[s].pc = "walk"
    /\ k \in sh[s].todo
    /\ sh' = [sh EXCEPT ![s] = [@ EXCEPT !.pc = "visiting", !.cur = k]]
    /\ active' = [active EXCEPT ![k] = @ + 1]
    /\ UNCHANGED <<tableVars, procVars, factoryCalls, created, fedSum, fedKeys>>
    /\ UNCHANGED <<persist, fin, coll, writers, finCalls, childOut, collFed, overlap>>
    /\ UNCHANGED <<winVars, restVars>>

\* saw.Result returns: err is overwritten, the result kept unless nil or failed
ShardVisited(s) ==
    /\ sh[s].pc = "visiting"
    /\ LET k == sh[s].cur
       IN  /\ \E o \in ResultOutcomes(s, k) :
                /\ sh' = [sh EXCEPT ![s] =
                            [@ EXCEPT !.pc = "walk", !.todo = @ \ {k}, !.err = o.e,
                                      !.ret = IF Keeps(o) THEN Put(@, k, o.v) ELSE @]]
                /\ childOut' = [childOut EXCEPT ![k] = o]
           /\ active' = [active EXCEPT ![k] = @ - 1]
           /\ finCalls' = [finCalls EXCEPT ![k] = @ + 1]
    /\ UNCHANGED <<tableVars, procVars, factoryCalls, created, fedSum, fedKeys>>
    /\ UNCHANGED <<persist, fin, coll, writers, collFed, overlap>>
    /\ UNCHANGED <<winVars, restVars>>

\* shard.Result returned (shardRet, lastErr); the collect loop starts if there is
\* a collect table
ShardWalked(s) ==
    /\ sh[s].pc = "walk"
    /\ sh[s].todo = {}
    /\ LET tc == IF coll.state = "open" THEN DOMAIN sh[s].ret ELSE {}
       IN  sh' = [sh EXCEPT ![s] = [@ EXCEPT !.lastErr = sh[s].err, !.toCollect = tc,
                                     !.pc = IF tc # {} THEN "collect" ELSE "unlock"]]
    /\ UNCHANGED <<tableVars, procVars, histVars>>
    /\ UNCHANGED <<persist, fin, coll, writers, finCalls, childOut, collFed, overlap>>
    /\ UNCHANGED <<winVars, restVars>>

\* collectTable.Emit(saw.Datum{Key: k, Value: v}): WriteDatum may fail
ShardCollect(s, k) ==
    /\ sh[s].pc = "collect"
    /\ k \in sh[s].toCollect
    /\ LET i == CollectShardOf(k)
           rest == sh[s].toCollect \ {k}
       IN  \E ok \in BOOLEAN :
             /\ writers' = IF ok
                           THEN [writers EXCEPT ![i] =
                                   [@ EXCEPT !.recs = @ \cup {<<k, sh[s].ret[k]>>},
                                             !.writes = @ + 1]]
                           ELSE writers
             /\ coll' = [coll EXCEPT !.count = @ + 1,
                                     !.errs = IF ok THEN @ ELSE @ + 1,
                                     !.lateFeeds = IF coll.state = "open" THEN @ ELSE @ + 1]
             /\ sh' = [sh EXCEPT ![s] =
                         [@ EXCEPT !.toCollect = rest,
                                   !.lastErr = IF ok THEN @ ELSE <<"write", k, 0>>,
                                   !.pc = IF rest # {} THEN "collect" ELSE "unlock"]]
    /\ collFed' = [collFed EXCEPT ![k] = @ + 1]
    /\ UNCHANGED <<tableVars, procVars, histVars, persist, fin, finCalls, childOut, overlap>>
    /\ UNCHANGED <<winVars, restVars>>

\* the callback returned lastErr: collectedErr.Store(err), Unlock, wg.Done
ShardUnlock(s) ==
    /\ sh[s].pc = "unlock"
    /\ fin' = [fin EXCEPT !.collectedErr = IF sh[s].lastErr # NoErr THEN sh[s].lastErr ELSE @]
    /\ locks' = [locks EXCEPT ![s] = FALSE]
    /\ sh' = [sh EXCEPT ![s] = [@ EXCEPT !.pc = "done"]]
    /\ UNCHANGED <<itemKind, items, banned, numKeysVar, errVar, procVars, histVars>>
    /\ UNCHANGED <<persist, coll, writers, finCalls, childOut, collFed, overlap>>
    /\ UNCHANGED <<winVars, restVars>>

\* wg.Wait() of forEachShard returns when every shard goroutine is done
FirstShardDone == sh[0].pc = "done"
AllShardsDone == \A s \in Shards : sh[s].pc = "done"

\* wg.Wait() returned: finalErr, the merged resultMap, the deferred collectTable.Result
ResultJoin ==
    /\ fin.pc = "running"
    /\ AllShardsDone
    /\ fin' = [fin EXCEPT !.pc = "returned",
                          !.finalErr = IF fin.collectedErr # NoErr THEN fin.collectedErr ELSE @,
                          !.resultMap = MergedUpTo[NumShards]]
    /\ IF coll.state = "open"
       THEN /\ writers' = ClosedWriters
            /\ coll' = [coll EXCEPT !.state = "closed"]
       ELSE UNCHANGED <<coll, writers>>
    /\ UNCHANGED <<tableVars, procVars, histVars>>
    /\ UNCHANGED <<persist, sh, finCalls, childOut, collFed, overlap>>
    /\ UNCHANGED <<winVars, restVars>>

(***************************************************************************)
(* The sliding window (Window)                                             *)
(***************************************************************************)
WProcs == {1, 2}
Seqs == 0..MaxSeq
Slots == 0..(WindowSize - 1)
\* the values of WindowSpec.MaxSeqAdvance tried: 0 is no limit
SeqAdvances == {0, WindowSize + 1}

\* a nil Saw in win.frames; a frame is its number and the seq it was created for
NoFrame == [id |-> 0, seq |-> 0]
WinEmpty == [frames |-> [i \in Slots |-> NoFrame], startSeq |-> 0, latestSeq |-> 0,
             startIdx |-> 0, hasData |-> FALSE]
WIdle == [pc |-> "idle", seq |-> 0, frame |-> NoFrame, ret |-> NoErr]

\* Window.indexForOffset
IndexForOffset(w, offset) == GoMod(w.startIdx + offset, WindowSize)
\* Window.indexForSeq
IndexForSeq(w, seq) == GoMod(w.startIdx + (seq - w.startSeq), WindowSize)

\* Out of window, drop
OutOfWindow(offset) == offset < 0 \/ (maxSeqAdvance > 0 /\ offset > maxSeqAdvance)

\* the frames asyncFinalize is called with when every live slot is cleared
LiveFrames(w) == {w.frames[i] : i \in {j \in Slots : w.frames[j] # NoFrame}}

\* one turn of the slide loop: finalize the head slot if live, advance the head
SlideStep(st) ==
    LET w == st.w
        head == w.frames[w.startIdx]
    IN  [w |-> [w EXCEPT !.frames = [@ EXCEPT ![w.startIdx] = NoFrame],
                         !.startIdx = IndexForOffset(w, 1),
                         !.startSeq = @ + 1],
         sched |-> IF head # NoFrame THEN st.sched \cup {head} ELSE st.sched]

RECURSIVE Slide(_, _)
Slide(n, st) == IF n <= 0 THEN st ELSE Slide(n - 1, SlideStep(st))

\* the number of turns of the slide loop: for i := 0; i < offset-winSize; i++
SlideTurnsPlusOne(offset) == offset - WindowSize + 1
SlideTurns(offset) == offset - WindowSize

\* prepareFrame when the window must slide (offset >= winSize), given the new frame
PrepareSlide(w, seq, frame) ==
    LET offset == seq - w.startSeq
        w1 == [w EXCEPT !.latestSeq = IF seq > @ THEN seq ELSE @]
        st == IF offset >= WindowSize * 2
              THEN [w |-> [w1 EXCEPT !.frames = [i \in Slots |-> NoFrame],
                                     !.startSeq = seq + (1 - WindowSize),
                                     !.startIdx = 0],
                    sched |-> LiveFrames(w1)]
              ELSE Slide(SlideTurns(offset), [w |-> w1, sched |-> {}])
    IN  [w |-> [st.w EXCEPT !.frames = [@ EXCEPT ![IndexForSeq(st.w, seq)] = frame]],
         sched |-> st.sched]

\* what WindowSpec.FrameFactory returns: a Saw and a nil error, a nil Saw and an
\* error, or (nothing in its type forbids it) a Saw together with an error
FrameFactoryOutcomes ==
    {[ok |-> TRUE, saw |-> TRUE], [ok |-> FALSE, saw |-> FALSE]}
        \cup (IF frameFactoryKind = "any" THEN {[ok |-> FALSE, saw |-> TRUE]} ELSE {})

\* Window.Emit calls prepareFrame, which runs under win.mu: the frame for the
\* datum's seq is found or made, the window slides, or the datum is dropped
WinPrepare(t, seq) ==
    /\ wth[t].pc = "idle"
    /\ winOps < MaxWinOps
    /\ ~winMu
    /\ winOps' = winOps + 1
    /\ LET offset == seq - win.startSeq
           new == [id |-> nextFrame + 1, seq |-> seq]
           needsFrame == \/ ~win.hasData
                         \/ ~OutOfWindow(offset) /\ offset >= WindowSize
                         \/ ~OutOfWindow(offset) /\ win.frames[IndexForOffset(win, offset)] = NoFrame
       IN  IF win.hasData /\ OutOfWindow(offset)
           THEN /\ droppedCount' = droppedCount + 1
                /\ wth' = [wth EXCEPT ![t] = [WIdle EXCEPT !.pc = "dropped", !.seq = seq]]
                /\ UNCHANGED <<win, nextFrame, pending, scheduled>>
           ELSE IF ~needsFrame
           THEN /\ wth' = [wth EXCEPT ![t] =
                             [WIdle EXCEPT !.pc = "feed", !.seq = seq,
                                           !.frame = win.frames[IndexForOffset(win, offset)]]]
                /\ UNCHANGED <<win, nextFrame, pending, scheduled, droppedCount>>
           ELSE \E out \in FrameFactoryOutcomes :
                  IF ~out.ok
                  THEN /\ wth' = [wth EXCEPT ![t] =
                                    [WIdle EXCEPT !.pc = "failed", !.seq = seq,
                                                  !.ret = <<"frame", "", seq>>]]
                       \* win.frames[frameIdx], err = win.spec.FrameFactory(...): the slot
                       \* is assigned what the factory returned before err is looked at
                       /\ IF out.saw /\ win.hasData /\ offset < WindowSize
                          THEN /\ win' = [win EXCEPT !.frames =
                                            [@ EXCEPT ![IndexForOffset(win, offset)] = new]]
                               /\ nextFrame' = nextFrame + 1
                          ELSE UNCHANGED <<win, nextFrame>>
                       /\ UNCHANGED <<pending, scheduled, droppedCount>>
                  ELSE /\ nextFrame' = nextFrame + 1
                       /\ wth' = [wth EXCEPT ![t] =
                                    [WIdle EXCEPT !.pc = "feed", !.seq = seq, !.frame = new]]
                       /\ UNCHANGED droppedCount
                       /\ IF ~win.hasData
                          THEN /\ win' = [win EXCEPT !.startSeq = seq, !.latestSeq = seq,
                                                     !.startIdx = 0, !.hasData = TRUE,
                                                     !.frames = [@ EXCEPT ![0] = new]]
                               /\ UNCHANGED <<pending, scheduled>>
                          ELSE IF offset < WindowSize
                          THEN /\ win' = [win EXCEPT !.frames =
                                            [@ EXCEPT ![IndexForOffset(win, offset)] = new]]
                               /\ UNCHANGED <<pending, scheduled>>
                          ELSE LET r == PrepareSlide(win, seq, new)
                               IN  /\ win' = r.w
                                   /\ pending' = pending \cup r.sched
                                   /\ scheduled' = scheduled \cup r.sched
    /\ droppedRecs' = droppedRecs + (IF wth'[t].pc = "dropped" THEN 1 ELSE 0)
    /\ UNCHANGED <<winMu, maxSeqAdvance, frameFactoryKind, latestOut, memVars, restVars>>

\* Window.Emit: frame == nil, the datum was dropped: droppedCount.Add(1), return nil
WinEmitDropped(t) ==
    /\ wth[t].pc = "dropped"
    /\ droppedCount' = droppedCount + 1
    /\ wth' = [wth EXCEPT ![t] = WIdle]
    /\ UNCHANGED <<win, winMu, maxSeqAdvance, droppedRecs, winOps, nextFrame, pending, scheduled, frameFactoryKind, latestOut,
                   memVars, restVars>>

\* Window.Emit: prepareFrame returned an error, return it
WinEmitFailed(t) ==
    /\ wth[t].pc = "failed"
    /\ wth' = [wth EXCEPT ![t] = WIdle]
    /\ UNCHANGED <<win, winMu, maxSeqAdvance, droppedRecs, droppedCount, winOps, nextFrame, pending,
                   scheduled, frameFactoryKind, latestOut,
                   memVars, restVars>>

\* Window.Emit: frame.Emit(datum) is entered
WinEmitFeed(t) ==
    /\ wth[t].pc = "feed"
    /\ wth' = [wth EXCEPT ![t] = [@ EXCEPT !.pc = "feeding"]]
    /\ UNCHANGED <<win, winMu, maxSeqAdvance, droppedRecs, droppedCount, winOps, nextFrame, pending,
                   scheduled, frameFactoryKind, latestOut,
                   memVars, restVars>>

\* frame.Emit(datum) returns, and Window.Emit with it
WinEmitDone(t) ==
    /\ wth[t].pc = "feeding"
    /\ wth' = [wth EXCEPT ![t] = WIdle]
    /\ UNCHANGED <<win, winMu, maxSeqAdvance, droppedRecs, droppedCount, winOps, nextFrame, pending,
                   scheduled, frameFactoryKind, latestOut,
                   memVars, restVars>>

\* the goroutine of asyncFinalize: frame.Result returns, finalizeWg.Done()
WinFrameResult(f) ==
    /\ f \in pending
    /\ pending' = pending \ {f}
    /\ UNCHANGED <<win, winMu, maxSeqAdvance, droppedRecs, droppedCount, wth, winOps, nextFrame,
                   scheduled, frameFactoryKind, latestOut,
                   memVars, restVars>>

\* Window.Result: under win.mu every live frame is sent to asyncFinalize and the
\* state is reset; finalizeWg.Wait() follows with the mutex held
WinResultCall(t) ==
    /\ wth[t].pc = "idle"
    /\ winOps > 0
    /\ ~winMu
    /\ winMu' = TRUE
    /\ pending' = pending \cup LiveFrames(win)
    /\ scheduled' = scheduled \cup LiveFrames(win)
    /\ win' = WinEmpty
    /\ wth' = [wth EXCEPT ![t] = [WIdle EXCEPT !.pc = "wait"]]
    /\ UNCHANGED <<maxSeqAdvance, droppedRecs, droppedCount, winOps, nextFrame, frameFactoryKind,
                   latestOut, memVars, restVars>>

\* finalizeWg.Wait() unblocks when every asyncFinalize goroutine has called Done
WaitSkipped == TRUE
WaitDone == pending = {}

\* finalizeWg.Wait() returns, the deferred Unlock, Window.Result returns
WinResultReturn(t) ==
    /\ wth[t].pc = "wait"
    /\ WaitDone
    /\ winMu' = FALSE
    /\ wth' = [wth EXCEPT ![t] = WIdle]
    /\ UNCHANGED <<win, maxSeqAdvance, droppedRecs, droppedCount, winOps, nextFrame, pending, scheduled,
                   frameFactoryKind, latestOut,
                   memVars, restVars>>

\* LatestFrame has not been called
NoLatest == [called |-> FALSE, seq |-> 0, frame |-> NoFrame]

\* Window.LatestFrame, under win.mu: (0, nil) when there is no data, else
\* latestSeq and the slot indexForSeq(latestSeq)
LatestFrame(w) ==
    IF ~w.hasData
    THEN [seq |-> 0, frame |-> NoFrame]
    ELSE [seq |-> w.latestSeq, frame |-> w.frames[IndexForSeq(w, w.latestSeq)]]

WinLatestFrame(t) ==
    /\ wth[t].pc = "idle"
    /\ ~winMu
    /\ latestOut' = [called |-> TRUE, seq |-> LatestFrame(win).seq,
                     frame |-> LatestFrame(win).frame]
    /\ UNCHANGED <<win, winMu, maxSeqAdvance, droppedRecs, droppedCount, wth, winOps, nextFrame,
                   pending, scheduled, frameFactoryKind, memVars, restVars>>

(***************************************************************************)
(* The pubsub hub (Hub)                                                    *)
(***************************************************************************)
PubProcs == {1, 2}
TopicIds == {"t1", "t2"}
\* the saws that register
Subs == {1, 2}
\* the topic lists Register is called with
Subscribes == {<<"t1">>, <<"t2">>, <<"t1", "t2">>}

\* the topic ids of a hub that also has a topic named like the dead letters
DeadTopicIds == TopicIds \cup {"DEAD"}
SubscribesDead == {<<"DEAD">>, <<"t1">>, <<"t1", "DEAD">>}

PubIdle == [pc |-> "idle", id |-> "t1", subs |-> <<>>, got |-> <<>>, errs |-> 0]

\* the namespace newTopic reports the count of topic id under, varPrefix + "." + id,
\* and the one NewHub reports the dead letters under, varPrefix + ".DEAD"
TopicNs(id) == <<"varPrefix", id>>
DeadNs == <<"varPrefix", "DEAD">>
\* ReportInt(ns, "count") returns the variable published as ns + ".count": the
\* one already there when there is one
SameVar(ns1, ns2) == <<ns1, "count">> = <<ns2, "count">>

\* Hub.Publish calls made so far
CallsTo(id) == IF id \in DOMAIN pubCalls THEN pubCalls[id] ELSE 0
PubTotal == CallsTo("t1") + CallsTo("t2") + CallsTo("DEAD")

\* topic.addSubscriber for every id of subscribes, the topic made when missing
RECURSIVE RegisterAll(_, _, _)
RegisterAll(topics, x, ids) ==
    IF ids = <<>> THEN topics
    ELSE LET id == Head(ids)
             old == IF id \in DOMAIN topics THEN topics[id] ELSE <<>>
         IN  RegisterAll(Put(topics, id, Append(old, x)), x, Tail(ids))

\* Hub.Register, under hub.mu
HubRegister(x, ids) ==
    /\ regOps < MaxRegs
    /\ regOps' = regOps + 1
    /\ hubTopics' = RegisterAll(hubTopics, x, ids)
    /\ UNCHANGED <<topicCount, deadLetterVar, pub, pubCalls, emitCalls>>
    /\ UNCHANGED nonHubVars

\* Hub.Publish looks the topic up without the lock
HubPublish(p, id) ==
    /\ pub[p].pc = "idle"
    /\ PubTotal < MaxPubs
    /\ pubCalls' = [pubCalls EXCEPT ![id] = @ + 1]
    /\ pub' = [pub EXCEPT ![p] =
                 IF id \in DOMAIN hubTopics
                 THEN [PubIdle EXCEPT !.pc = "emit", !.id = id, !.subs = hubTopics[id]]
                 ELSE [PubIdle EXCEPT !.pc = "dead", !.id = id]]
    /\ UNCHANGED <<hubTopics, topicCount, deadLetterVar, regOps, emitCalls>>
    /\ UNCHANGED nonHubVars

\* hub.deadLetterVar.Add(1)
AddDeadNone(n) == n
AddDead(n) == n + 1

\* the topic is unknown: the dead letter is counted and Publish returns
HubDeadLetter(p) ==
    /\ pub[p].pc = "dead"
    /\ deadLetterVar' = AddDead(deadLetterVar)
    /\ topicCount' = [id \in DOMAIN topicCount |->
                         IF SameVar(TopicNs(id), DeadNs) THEN AddDead(topicCount[id])
                         ELSE topicCount[id]]
    /\ pub' = [pub EXCEPT ![p] = PubIdle]
    /\ UNCHANGED <<hubTopics, regOps, pubCalls, emitCalls>>
    /\ UNCHANGED nonHubVars

\* topic.emit drops what saw.Emit returns and goes on with the next subscriber
EmitStopsOnErr(e) == e = NoErr
EmitGoesOn(e) == TRUE

\* topic.emit: saw.Emit(datum) on the next subscriber, which may fail
HubDeliver(p) ==
    /\ pub[p].pc = "emit"
    /\ Len(pub[p].got) < Len(pub[p].subs)
    /\ LET x == pub[p].subs[Len(pub[p].got) + 1]
       IN  /\ emitCalls' = [emitCalls EXCEPT ![x] = @ + 1]
           /\ \E e \in {NoErr, <<"emit", pub[p].id, x>>} :
                pub' = [pub EXCEPT ![p] =
                          [@ EXCEPT !.got = Append(@, x),
                                    !.errs = @ + (IF e = NoErr THEN 0 ELSE 1),
                                    !.pc = IF EmitGoesOn(e) THEN "emit" ELSE "count"]]
    /\ UNCHANGED <<hubTopics, topicCount, deadLetterVar, regOps, pubCalls>>
    /\ UNCHANGED nonHubVars

\* topic.emit: every subscriber was called, t.countVar.Add(1)
HubCount(p) ==
    /\ \/ pub[p].pc = "emit" /\ Len(pub[p].got) = Len(pub[p].subs)
       \/ pub[p].pc = "count"
    /\ topicCount' = [topicCount EXCEPT ![pub[p].id] = @ + 1]
    /\ deadLetterVar' = IF SameVar(TopicNs(pub[p].id), DeadNs) THEN deadLetterVar + 1
                        ELSE deadLetterVar
    /\ pub' = [pub EXCEPT ![p] = [@ EXCEPT !.pc = "done"]]
    /\ UNCHANGED <<hubTopics, regOps, pubCalls, emitCalls>>
    /\ UNCHANGED nonHubVars

\* Hub.Publish returns; it has no result
HubReturn(p) ==
    /\ pub[p].pc = "done"
    /\ pub' = [pub EXCEPT ![p] = PubIdle]
    /\ UNCHANGED <<hubTopics, topicCount, deadLetterVar, regOps, pubCalls, emitCalls>>
    /\ UNCHANGED nonHubVars

(***************************************************************************)
(* runSingleBatch: dealing input shards out to queues                      *)
(***************************************************************************)
AlIdle == [W |-> 0, S |-> 0, i |-> 0, rem |-> 0, cur |-> 0, runs |-> <<>>]
\* spec.NumShards = w queues over an input of s shards, before the loop
AlStart(w, s) == [AlIdle EXCEPT !.W = w, !.S = s]

\* the loop runs once per queue when there are fewer queues than input
\* shards, and once per input shard otherwise
AllocTurns(w, s) == IF w < s THEN w ELSE s
\* inputsPerShard or queuesPerShard is the fraction AllocNum / AllocDen; remain
\* and next are kept as numerators over AllocDen
AllocNum(w, s) == IF w < s THEN s ELSE w
AllocDen(w, s) == IF w < s THEN w ELSE s

RECURSIVE GCD(_, _)
GCD(a, b) == IF b = 0 THEN a ELSE GCD(b, a % b)
RECURSIVE IsPow2(_)
IsPow2(n) == n = 1 \/ (n % 2 = 0 /\ IsPow2(n \div 2))
\* the float64 quotient is exact when the reduced denominator is a power of two
ExactQuotient(a, b) == IsPow2(b \div GCD(a, b))

\* int(math.Floor(next + 0.5)) in exact arithmetic
Rounded(nextNum, b) == (2 * nextNum + b) \div (2 * b)
\* next + 0.5 is a whole number: a quotient that float64 cannot hold exactly
\* may then land just under it, and Floor gives one less
Roundings(nextNum, a, b) ==
    IF (2 * nextNum + b) % (2 * b) = 0 /\ ~ExactQuotient(a, b)
    THEN {Rounded(nextNum, b), Rounded(nextNum, b) - 1}
    ELSE {Rounded(nextNum, b)}

\* remain = next - float64(numInputs)
CarryNone(nextNum, n, b) == 0
Carry(nextNum, n, b) == nextNum - n * b

\* one turn of the loop of runSingleBatch: the run handed to the goroutine is
\* n input shards from cur on, or input shard i with n queues
AllocStep ==
    /\ al.i < AllocTurns(al.W, al.S)
    /\ LET a == AllocNum(al.W, al.S)
           b == AllocDen(al.W, al.S)
           nextNum == al.rem + a
       IN  \E n \in Roundings(nextNum, a, b) :
             al' = [al EXCEPT !.i = @ + 1,
                              !.rem = Carry(nextNum, n, b),
                              !.cur = IF al.W < al.S THEN @ + n ELSE @ + 1,
                              !.runs = Append(@, [start |-> al.cur, n |-> n])]
    /\ UNCHANGED nonAllocVars

\* the runs the loop deals out when no rounding falls on a half
RECURSIVE AllocRuns(_)
AllocRuns(st) ==
    IF st.i >= AllocTurns(st.W, st.S) THEN st.runs
    ELSE LET a == AllocNum(st.W, st.S)
             b == AllocDen(st.W, st.S)
             nextNum == st.rem + a
             n == Rounded(nextNum, b)
         IN  AllocRuns([st EXCEPT !.i = @ + 1,
                                  !.rem = Carry(nextNum, n, b),
                                  !.cur = IF st.W < st.S THEN @ + n ELSE @ + 1,
                                  !.runs = Append(@, [start |-> st.cur, n |-> n])])

(***************************************************************************)
(* The batch runner (RunBatch, shardRunner, Par, Queue, QueueGroup)        *)
(***************************************************************************)
Batches == {1, 2}
\* the goroutines runSingleBatch starts for one batch, and the queues of one Par
ProdIds == {0, 1}
QIdx == {0, 1}
ProdKeys == Batches \X ProdIds
QueueKeys == Batches \X ProdIds \X QIdx
\* input shard counts and BatchSpec.NumShards tried for the first batch
BatchShapes == {[S |-> 1, W |-> 2], [S |-> 2, W |-> 1], [S |-> 2, W |-> 2]}
\* BatchSpec.QueueBufferSize: an unbuffered and a buffered channel
QueueBufferSizes == {0, 2}

NoBatch == [S |-> 0, W |-> 0, hash |-> FALSE, dec |-> FALSE, buf |-> 0, topic |-> "t1"]
\* the batches RunBatch is called with: the first of any shape, with a
\* KeyHashFunc or with an InputValueDecoder; the second missing or one shard,
\* one queue
BatchSpecs1 ==
    {[S |-> shape.S, W |-> shape.W, hash |-> h, dec |-> ~h, buf |-> n, topic |-> "t1"] :
        shape \in BatchShapes, h \in BOOLEAN, n \in QueueBufferSizes}
BatchSpecs2 ==
    {NoBatch, [S |-> 1, W |-> 1, hash |-> FALSE, dec |-> FALSE, buf |-> 0, topic |-> "t2"]}

\* the input: every shard of the first batch holds RecsPerShard records, the
\* shard of the second one; the keys run through a, c, b
KeySeq == <<"a", "c", "b">>
ShardLen(b) == IF b = 1 THEN RecsPerShard ELSE 1
RecKey(s, x) == KeySeq[((s + x) % 3) + 1]
NoTask == [b |-> 0, s |-> 0, x |-> 0, key |-> ""]

NoProd == [pc |-> "none", shard |-> 0, last |-> 0, pos |-> 0, nq |-> 0, round |-> 0,
           q |-> 0, task |-> NoTask]
NoQueue == [state |-> "none", chn |-> <<>>, running |-> NoTask, closes |-> 0]

\* the runs runSingleBatch hands to its goroutines
RunsOf(c) == AllocRuns(AlStart(c.W, c.S))
\* goroutine i of a batch: its input shards and the number of queues of its Par
ProdOf(c, i) ==
    IF c.S = 0 \/ i >= AllocTurns(c.W, c.S) THEN NoProd
    ELSE LET r == RunsOf(c)[i + 1]
         IN  IF c.W < c.S
             THEN [NoProd EXCEPT !.pc = "new", !.shard = r.start, !.last = r.start + r.n,
                                 !.nq = 1]
             ELSE [NoProd EXCEPT !.pc = "new", !.shard = r.start, !.last = r.start + 1,
                                 !.nq = r.n]

\* RunBatch starts a goroutine per BatchSpec, runSingleBatch one per run
RunBatchStart ==
    /\ runner = "idle"
    /\ runner' = "reading"
    /\ prod' = [k \in ProdKeys |-> ProdOf(bcfg[k[1]], k[2])]
    /\ UNCHANGED <<bcfg, queues, wgTasks, ran, readRecs, late>>
    /\ UNCHANGED nonBatchVars

\* queueGroup.NewPar: the queues are made and their goroutines started
ProdNewPar(b, i) ==
    /\ prod[<<b, i>>].pc = "new"
    /\ prod' = [prod EXCEPT ![<<b, i>>].pc = "open"]
    /\ queues' = [k \in QueueKeys |->
                    IF k[1] = b /\ k[2] = i /\ k[3] < prod[<<b, i>>].nq
                    THEN [NoQueue EXCEPT !.state = "open"]
                    ELSE queues[k]]
    /\ UNCHANGED <<bcfg, runner, wgTasks, ran, readRecs, late>>
    /\ UNCHANGED nonBatchVars

\* runInSeq: the next shardRunner opens its reader, or the run is over
ProdOpen(b, i) ==
    /\ prod[<<b, i>>].pc = "open"
    /\ LET p == prod[<<b, i>>]
       IN  IF p.shard >= p.last
           THEN prod' = [prod EXCEPT ![<<b, i>>].pc = "done"]
           ELSE \E ok \in BOOLEAN :
                  prod' = [prod EXCEPT ![<<b, i>>] =
                             IF ok THEN [p EXCEPT !.pc = "read", !.pos = 0]
                             ELSE [p EXCEPT !.shard = @ + 1]]
    /\ UNCHANGED <<bcfg, runner, queues, wgTasks, ran, readRecs, late>>
    /\ UNCHANGED nonBatchVars

\* Par.Sched picks the queue: hash % len(par.queues) for a hash >= 0, else the
\* round-robin counter
SchedShard(hash, round, nq) == IF hash >= 0 THEN GoMod(hash, nq) ELSE GoMod(round, nq)
\* atomic.AddUint32(&par.round, 1); the counter wraps only after 2^32 tasks
NextRound(hash, round) == IF hash >= 0 THEN round ELSE round + 1

\* shardRunner.run: ReadDatum returns a record, io.EOF or an error; a record
\* is hashed and Queue.Sched adds it to the wait group
ProdRead(b, i) ==
    /\ prod[<<b, i>>].pc = "read"
    /\ LET p == prod[<<b, i>>]
           task == [b |-> b, s |-> p.shard, x |-> p.pos, key |-> RecKey(p.shard, p.pos)]
           hash == IF bcfg[b].hash THEN KeyHash(task.key) ELSE -1
           round == NextRound(hash, p.round)
       IN  \E ok \in BOOLEAN :
             IF ok /\ p.pos < ShardLen(b)
             THEN /\ readRecs' = readRecs \cup {task}
                  /\ wgTasks' = wgTasks + 1
                  /\ prod' = [prod EXCEPT ![<<b, i>>] =
                                [p EXCEPT !.pc = "send", !.task = task, !.round = round,
                                          !.q = SchedShard(hash, round, p.nq)]]
             ELSE /\ prod' = [prod EXCEPT ![<<b, i>>] =
                                [p EXCEPT !.pc = "open", !.shard = @ + 1]]
                  /\ UNCHANGED <<readRecs, wgTasks>>
    /\ UNCHANGED <<bcfg, runner, queues, ran, late>>
    /\ UNCHANGED nonBatchVars

\* Queue.Sched: q.chn <- task; an unbuffered channel hands the task to the
\* waiting goroutine of the queue
ProdSend(b, i) ==
    /\ prod[<<b, i>>].pc = "send"
    /\ LET p == prod[<<b, i>>]
           k == <<b, i, p.q>>
           q == queues[k]
       IN  /\ IF bcfg[b].buf = 0
              THEN /\ q.running = NoTask /\ q.chn = <<>>
                   /\ queues' = [queues EXCEPT ![k].running = p.task]
              ELSE /\ Len(q.chn) < bcfg[b].buf
                   /\ queues' = [queues EXCEPT ![k].chn = Append(@, p.task)]
           /\ late' = late + (IF q.state = "closed" THEN 1 ELSE 0)
           /\ prod' = [prod EXCEPT ![<<b, i>>] =
                         [p EXCEPT !.pc = "read", !.pos = @ + 1, !.task = NoTask]]
    /\ UNCHANGED <<bcfg, runner, wgTasks, ran, readRecs>>
    /\ UNCHANGED nonBatchVars

\* for datum := range q.chn: the oldest task in the channel
NewestTask(chn) == chn[Len(chn)]
NextTask(chn) == Head(chn)
Without(chn, t) == SelectSeq(chn, LAMBDA e : e # t)

\* Queue.run receives the next task
QueueTake(b, i, j) ==
    /\ queues[<<b, i, j>>].running = NoTask
    /\ queues[<<b, i, j>>].chn # <<>>
    /\ LET q == queues[<<b, i, j>>]
           t == NextTask(q.chn)
       IN  /\ queues' = [queues EXCEPT ![<<b, i, j>>] =
                           [q EXCEPT !.running = t, !.chn = Without(q.chn, t)]]
           /\ late' = late + (IF q.state = "closed" THEN 1 ELSE 0)
    /\ UNCHANGED <<bcfg, runner, prod, wgTasks, ran, readRecs>>
    /\ UNCHANGED nonBatchVars

\* a Queue.run that forgets waitGroup.Done
QueueRunNoDone(b, i, j) ==
    /\ queues[<<b, i, j>>].running # NoTask
    /\ \E decoded \in (IF bcfg[b].dec THEN BOOLEAN ELSE {TRUE}) :
         ran' = [ran EXCEPT ![<<b, i, j>>] =
                   Append(@, [task |-> queues[<<b, i, j>>].running, pub |-> decoded,
                              topic |-> bcfg[b].topic])]
    /\ queues' = [queues EXCEPT ![<<b, i, j>>].running = NoTask]
    /\ UNCHANGED <<bcfg, runner, prod, wgTasks, readRecs, late>>
    /\ UNCHANGED nonBatchVars

\* the task of shardRunner.sched: the value is decoded when a decoder is set,
\* a value that does not decode ends the task, else the datum is published on
\* the topic; then Queue.run calls waitGroup.Done
QueueRun(b, i, j) ==
    /\ queues[<<b, i, j>>].running # NoTask
    /\ \E decoded \in (IF bcfg[b].dec THEN BOOLEAN ELSE {TRUE}) :
         ran' = [ran EXCEPT ![<<b, i, j>>] =
                   Append(@, [task |-> queues[<<b, i, j>>].running, pub |-> decoded,
                              topic |-> bcfg[b].topic])]
    /\ queues' = [queues EXCEPT ![<<b, i, j>>].running = NoTask]
    /\ wgTasks' = wgTasks - 1
    /\ UNCHANGED <<bcfg, runner, prod, readRecs, late>>
    /\ UNCHANGED nonBatchVars

\* RunBatch: wg.Wait() returns when every runSingleBatch has, each after its
\* own goroutines; QueueGroup.Join is entered
JoinStart ==
    /\ runner = "reading"
    /\ \A k \in ProdKeys : prod[k].pc \in {"none", "done"}
    /\ runner' = "join"
    /\ UNCHANGED <<bcfg, prod, queues, wgTasks, ran, readRecs, late>>
    /\ UNCHANGED nonBatchVars

\* group.waitGroup.Wait()
JoinWaitSkipped == TRUE
JoinWaitDone == wgTasks = 0

\* QueueGroup.Join: after the wait every queue is closed, group.queues = nil,
\* and RunBatch returns
JoinClose ==
    /\ runner = "join"
    /\ JoinWaitDone
    /\ runner' = "done"
    /\ queues' = [k \in QueueKeys |->
                    IF queues[k].state = "none" THEN queues[k]
                    ELSE [queues[k] EXCEPT !.state = "closed", !.closes = @ + 1]]
    /\ UNCHANGED <<bcfg, prod, wgTasks, ran, readRecs, late>>
    /\ UNCHANGED nonBatchVars

\* no batch is running
InitBatchIdle ==
    /\ bcfg = [b \in Batches |-> NoBatch]
    /\ runner = "idle"
    /\ prod = [k \in ProdKeys |-> NoProd]
    /\ queues = [k \in QueueKeys |-> NoQueue]
    /\ wgTasks = 0
    /\ ran = [k \in QueueKeys |-> <<>>]
    /\ readRecs = {}
    /\ late = 0

(***************************************************************************)
(* The metrics registry (ReportInt, ReportFloat)                           *)
(***************************************************************************)
\* the goroutines that register metrics
MProcs == {1, 2}
\* namespaces and names, each a list of dot-free segments
Namespaces == {<<"t">>, <<"t", "x">>}
MetricNames == {<<"keys">>, <<"x", "keys">>}
VarKinds == {"int", "float"}

\* varName := ns + "." + name, as the list of its dot-separated segments
VarName(ns, name) == ns \o name
VarNames == {VarName(ns, name) : ns \in Namespaces, name \in MetricNames}

MIdle == [pc |-> "idle", kind |-> "int", varName |-> <<>>]

\* expvar.Get(varName): the index of the published variable, 0 for nil
ExpvarGet(n) ==
    IF \E i \in 1..Len(expvars) : expvars[i].name = n
    THEN CHOOSE i \in 1..Len(expvars) : expvars[i].name = n
    ELSE 0

\* ReportInt(ns, name) / ReportFloat(ns, name) is called
ReportCall(p, kind, ns, name) ==
    /\ mth[p].pc = "idle"
    /\ \A q \in MProcs : mth[q].pc # "panicked"
    /\ reportOps < MaxReports
    /\ reportOps' = reportOps + 1
    /\ mth' = [mth EXCEPT ![p] = [pc |-> "lock", kind |-> kind, varName |-> VarName(ns, name)]]
    /\ UNCHANGED <<expvars, varLock, handles, addsVia, varAddOps>>
    /\ UNCHANGED nonMetricVars

\* a mutex that excludes nobody
VarLockIgnored == TRUE
\* varLock.Lock() goes through when nobody holds the mutex
VarLockFree == varLock = 0

ReportLock(p) ==
    /\ mth[p].pc = "lock"
    /\ VarLockFree
    /\ varLock' = p
    /\ mth' = [mth EXCEPT ![p].pc = "get"]
    /\ UNCHANGED <<expvars, handles, addsVia, reportOps, varAddOps>>
    /\ UNCHANGED nonMetricVars

\* if v := expvar.Get(varName); v != nil { return v.(*expvar.Int) }: the type
\* assertion panics when the variable has the other kind; the deferred Unlock runs
\* in both cases
ReportGet(p) ==
    /\ mth[p].pc = "get"
    /\ LET v == ExpvarGet(mth[p].varName) IN
         IF v = 0
         THEN /\ mth' = [mth EXCEPT ![p].pc = "new"]
              /\ UNCHANGED <<varLock, handles>>
         ELSE IF expvars[v].kind = mth[p].kind
         THEN /\ handles' = handles \cup {[p |-> p, name |-> mth[p].varName, id |-> v]}
              /\ mth' = [mth EXCEPT ![p] = MIdle]
              /\ varLock' = 0
         ELSE /\ mth' = [mth EXCEPT ![p].pc = "panicked"]
              /\ varLock' = 0
              /\ UNCHANGED handles
    /\ UNCHANGED <<expvars, addsVia, reportOps, varAddOps>>
    /\ UNCHANGED nonMetricVars

\* return expvar.NewInt(varName): expvar panics when the name is published already;
\* the deferred Unlock
ReportNew(p) ==
    /\ mth[p].pc = "new"
    /\ IF ExpvarGet(mth[p].varName) # 0
       THEN /\ mth' = [mth EXCEPT ![p].pc = "panicked"]
            /\ UNCHANGED <<expvars, handles>>
       ELSE /\ expvars' = Append(expvars, [name |-> mth[p].varName, kind |-> mth[p].kind,
                                           value |-> 0])
            /\ handles' = handles \cup {[p |-> p, name |-> mth[p].varName,
                                         id |-> Len(expvars) + 1]}
            /\ mth' = [mth EXCEPT ![p] = MIdle]
    /\ varLock' = 0
    /\ UNCHANGED <<addsVia, reportOps, varAddOps>>
    /\ UNCHANGED nonMetricVars

\* VarInt.Add(1) / VarFloat.Add(1) on a variable the goroutine was given: atomic
VarAdd(p, h) ==
    /\ h \in handles
    /\ h.p = p
    /\ \A q \in MProcs : mth[q].pc # "panicked"
    /\ varAddOps < MaxVarAdds
    /\ varAddOps' = varAddOps + 1
    /\ expvars' = [expvars EXCEPT ![h.id].value = @ + 1]
    /\ addsVia' = [addsVia EXCEPT ![p][h.name] = @ + 1]
    /\ UNCHANGED <<varLock, mth, handles, reportOps>>
    /\ UNCHANGED nonMetricVars

InitMetricsIdle ==
    /\ expvars = <<>>
    /\ varLock = 0
    /\ mth = [p \in MProcs |-> MIdle]
    /\ handles = {}
    /\ addsVia = [p \in MProcs |-> [n \in VarNames |-> 0]]
    /\ reportOps = 0
    /\ varAddOps = 0

(***************************************************************************)
(* The quantile sketch (QuantileState, Quantile)                           *)
(***************************************************************************)
\* the two quantile states
Sketches == {1, 2}
\* the metrics added
Metrics == {1, 2, 3}
\* bufferSize of a state
BufferSizes == {1, 2}
\* the ratios At is called with, as numerator and denominator
Ratios == {<<0, 1>>, <<1, 2>>, <<1, 1>>}

\* a nil buffer of the sample stack
NilBuf == <<>>

\* NewQuantileState(bufferSize); panicked marks a state whose method has panicked
NewQuantileState(b) ==
    [bufferSize |-> b, leaf |-> <<>>, sampleStack |-> <<>>, min |-> 0, max |-> 0,
     hasMetric |-> FALSE, collapseFlip |-> 0, panicked |-> FALSE]

RECURSIVE InsertMetric(_, _)
InsertMetric(s, x) ==
    IF s = <<>> THEN <<x>>
    ELSE IF x < Head(s) THEN <<x>> \o s
    ELSE <<Head(s)>> \o InsertMetric(Tail(s), x)

\* sort.Sort(metricSort(s))
RECURSIVE SortMetrics(_)
SortMetrics(s) ==
    IF s = <<>> THEN <<>>
    ELSE InsertMetric(SortMetrics(SubSeq(s, 1, Len(s) - 1)), s[Len(s)])

\* the loop of collapse from leftIdx = li, rightIdx = ri on: ok is FALSE when an
\* index is out of range (right[rightIdx] or merged[(leftIdx+rightIdx)/2])
RECURSIVE CollapseLoop(_, _, _, _, _, _, _)
CollapseLoop(left, right, li, ri, merged, b, flip) ==
    IF li + ri >= b * 2 THEN [ok |-> TRUE, merged |-> merged]
    ELSE LET takeLeft == IF li >= Len(left) THEN FALSE
                         ELSE IF ri >= Len(right) THEN TRUE
                         ELSE left[li + 1] < right[ri + 1]
         IN IF ~takeLeft /\ ri >= Len(right) THEN [ok |-> FALSE, merged |-> merged]
            ELSE LET pick == IF takeLeft THEN left[li + 1] ELSE right[ri + 1]
                     li2 == IF takeLeft THEN li + 1 ELSE li
                     ri2 == IF takeLeft THEN ri ELSE ri + 1
                     at == (li2 + ri2) \div 2
                 IN IF (li2 + ri2) % 2 = flip
                    THEN IF at >= b THEN [ok |-> FALSE, merged |-> merged]
                         ELSE CollapseLoop(left, right, li2, ri2,
                                           [merged EXCEPT ![at + 1] = pick], b, flip)
                    ELSE CollapseLoop(left, right, li2, ri2, merged, b, flip)

\* qs.collapse(left, right): merged := make([]Metric, qs.bufferSize), then the loop
Collapse(q, left, right) ==
    CollapseLoop(left, right, 0, 0, [i \in 1..q.bufferSize |-> 0], q.bufferSize,
                 q.collapseFlip)

\* the stack grown by nil levels until it has `level` of them
Grown(stack, level) ==
    IF Len(stack) < level THEN stack \o [i \in 1..(level - Len(stack)) |-> NilBuf]
    ELSE stack

\* qs.mergeSampleStack(level, buf), from the loop test on
RECURSIVE MergeSampleStack(_, _, _)
MergeSampleStack(q, level, buf) ==
    IF level < Len(q.sampleStack)
    THEN IF q.sampleStack[level + 1] = NilBuf
         THEN [q EXCEPT !.sampleStack[level + 1] = buf]
         ELSE LET c == Collapse(q, q.sampleStack[level + 1], buf) IN
              IF ~c.ok THEN [q EXCEPT !.panicked = TRUE]
              ELSE MergeSampleStack([q EXCEPT !.collapseFlip = 1 - @,
                                              !.sampleStack[level + 1] = NilBuf],
                                    level + 1, c.merged)
    ELSE LET grown == Grown(q.sampleStack, level) IN
         IF level >= Len(grown)
         THEN [q EXCEPT !.sampleStack = grown, !.panicked = TRUE]
         ELSE [q EXCEPT !.sampleStack = [grown EXCEPT ![level + 1] = buf]]

\* the sorted buffers of length b
SortedBufs(b) == {s \in [1..b -> Metrics] : \A i \in 1..(b - 1) : s[i] <= s[i + 1]}
\* the sample stacks of up to MaxLevels levels, each nil or a sorted buffer
SampleStacks(b) ==
    UNION {[1..n -> SortedBufs(b) \cup {NilBuf}] : n \in 0..MaxLevels}

\* no call made
FxIdle == [op |-> "none", q |-> NewQuantileState(1), left |-> <<>>, right |-> <<>>,
           level |-> 0, done |-> FALSE, ok |-> TRUE, merged |-> <<>>,
           after |-> NewQuantileState(1)]

\* the calls of collapse with two sorted buffers of length bufferSize, for the
\* buffer sizes bs
CollapseCalls(bs) ==
    {[FxIdle EXCEPT !.op = "collapse", !.q = [NewQuantileState(b) EXCEPT !.collapseFlip = f],
                    !.left = l, !.right = r] :
        <<b, f, l, r>> \in UNION {{<<b1, f1, l1, r1>> :
                                    f1 \in {0, 1}, l1 \in SortedBufs(b1), r1 \in SortedBufs(b1)} :
                                 b1 \in bs}}

\* the calls of mergeSampleStack(level, buf) on a state with any sample stack,
\* for the buffer sizes bs
MergeCalls(bs) ==
    UNION {{[FxIdle EXCEPT !.op = "merge",
                           !.q = [NewQuantileState(b) EXCEPT !.collapseFlip = f,
                                                             !.sampleStack = st],
                           !.level = lv, !.right = buf] :
              f \in {0, 1}, st \in SampleStacks(b), lv \in 0..(MaxLevels + 1),
              buf \in SortedBufs(b)} : b \in bs}

\* qs.collapse(left, right) is called and returns or panics
CollapseCall ==
    /\ fx.op = "collapse"
    /\ ~fx.done
    /\ LET c == Collapse(fx.q, fx.left, fx.right)
       IN  fx' = [fx EXCEPT !.done = TRUE, !.ok = c.ok, !.merged = c.merged,
                            !.after = IF c.ok THEN [fx.q EXCEPT !.collapseFlip = 1 - @]
                                      ELSE [fx.q EXCEPT !.panicked = TRUE]]
    /\ UNCHANGED <<nonExtraVars, sx, qinto>>

\* qs.mergeSampleStack(level, buf) is called and returns or panics
MergeStackCall ==
    /\ fx.op = "merge"
    /\ ~fx.done
    /\ LET st == MergeSampleStack(fx.q, fx.level, fx.right)
       IN  fx' = [fx EXCEPT !.done = TRUE, !.ok = ~st.panicked, !.after = st]
    /\ UNCHANGED <<nonExtraVars, sx, qinto>>

\* the update of min, max and hasMetric that ends AddMetric
NoteMetric(q, metric) ==
    [q EXCEPT !.min = IF ~q.hasMetric \/ metric < q.min THEN metric ELSE @,
              !.max = IF ~q.hasMetric \/ metric > q.max THEN metric ELSE @,
              !.hasMetric = TRUE]

\* qs.AddMetric(metric)
AddMetric(q, metric) ==
    LET leaf == Append(q.leaf, metric)
        b == q.bufferSize
    IN IF Len(leaf) = b * 2
       THEN LET left == SortMetrics(SubSeq(leaf, 1, b))
                right == SortMetrics(SubSeq(leaf, b + 1, b * 2))
                c == Collapse(q, left, right)
            IN IF ~c.ok THEN [q EXCEPT !.leaf = left \o right, !.panicked = TRUE]
               ELSE LET st == MergeSampleStack([q EXCEPT !.leaf = <<>>,
                                                         !.collapseFlip = 1 - @],
                                               0, c.merged)
                    IN IF st.panicked THEN st ELSE NoteMetric(st, metric)
       ELSE NoteMetric([q EXCEPT !.leaf = leaf], metric)

\* for i := len(other.sampleStack) - 1; i >= 0; i-- { qs.mergeSampleStack(i, ...) }
RECURSIVE MergeStackOf(_, _, _)
MergeStackOf(q, other, i) ==
    IF i < 0 \/ q.panicked THEN q
    ELSE MergeStackOf(MergeSampleStack(q, i, other.sampleStack[i + 1]), other, i - 1)

\* for _, metric := range other.leaf { qs.AddMetric(metric) }
RECURSIVE AddLeafOf(_, _)
AddLeafOf(q, leaf) ==
    IF leaf = <<>> \/ q.panicked THEN q
    ELSE AddLeafOf(AddMetric(q, Head(leaf)), Tail(leaf))

\* a size test that lets every pair through
SizesAlike(q, other) == FALSE
\* if qs.bufferSize != other.bufferSize
SizesDiffer(q, other) == q.bufferSize # other.bufferSize

\* qs.MergeFrom(other): the receiver and the other state afterwards, and the error
MergeFrom(q, other) ==
    IF SizesDiffer(q, other)
    THEN [qs |-> q, other |-> other, err |-> "ErrNotMergeable"]
    ELSE IF ~other.hasMetric THEN [qs |-> q, other |-> other, err |-> "nil"]
    ELSE LET mm == [q EXCEPT
                      !.min = IF ~q.hasMetric \/ other.min < q.min THEN other.min ELSE @,
                      !.max = IF ~q.hasMetric \/ other.max > q.max THEN other.max ELSE @]
             st == MergeStackOf(mm, other, Len(other.sampleStack) - 1)
         IN [qs |-> AddLeafOf(st, other.leaf), other |-> other, err |-> "nil"]

RECURSIVE InsertWeighted(_, _)
InsertWeighted(s, x) ==
    IF s = <<>> THEN <<x>>
    ELSE IF x.metric < Head(s).metric THEN <<x>> \o s
    ELSE <<Head(s)>> \o InsertWeighted(Tail(s), x)

\* sort.Sort(weightedMetricSort(queryBuf)); weighted metrics that compare equal are
\* kept in the order they were appended
RECURSIVE SortWeighted(_)
SortWeighted(s) ==
    IF s = <<>> THEN <<>>
    ELSE InsertWeighted(SortWeighted(SubSeq(s, 1, Len(s) - 1)), s[Len(s)])

\* 1 << uint(level+2)
RECURSIVE Pow2(_)
Pow2(n) == IF n = 0 THEN 1 ELSE 2 * Pow2(n - 1)

Weighted(buf, w) == [i \in 1..Len(buf) |-> [metric |-> buf[i], weight |-> w]]

\* queryBuf as Result appends to it: the leaf, then the sample stack from level on
RECURSIVE StackBuf(_, _)
StackBuf(stack, level) ==
    IF level >= Len(stack) THEN <<>>
    ELSE Weighted(stack[level + 1], Pow2(level + 2)) \o StackBuf(stack, level + 1)

RECURSIVE TotalWeight(_)
TotalWeight(buf) == IF buf = <<>> THEN 0 ELSE Head(buf).weight + TotalWeight(Tail(buf))

\* a query buffer left in the order of appending
QueryUnsorted(buf) == buf
QuerySorted(buf) == SortWeighted(buf)

\* qs.Result()
QResult(q) ==
    LET buf == Weighted(q.leaf, 1) \o StackBuf(q.sampleStack, 0) IN
    [total |-> TotalWeight(buf), min |-> q.min, max |-> q.max, queryBuf |-> QuerySorted(buf)]

\* the loop of At: currWeight >= float64(q.total) * ratio, ratio being num / den
RECURSIVE AtLoop(_, _, _, _, _)
AtLoop(q, i, currWeight, num, den) ==
    IF i > Len(q.queryBuf) THEN q.max
    ELSE LET w == currWeight + q.queryBuf[i].weight IN
         IF w * den >= q.total * num THEN q.queryBuf[i].metric
         ELSE AtLoop(q, i + 1, w, num, den)

\* q.At(ratio)
At(q, num, den) ==
    IF num <= 0 THEN q.min
    ELSE IF num >= den THEN q.max
    ELSE AtLoop(q, 1, 0, num, den)

\* for currWeight >= targetWeight && idx < numBuckets: targetWeight is k steps of
\* q.total / numBuckets
RECURSIVE GetFill(_, _, _, _, _, _)
GetFill(q, n, metric, currWeight, st, out) ==
    IF currWeight * n >= st.k * q.total /\ st.idx < n
    THEN GetFill(q, n, metric, currWeight, [idx |-> st.idx + 1, k |-> st.k + 1],
                 [out EXCEPT ![st.idx + 1] = metric])
    ELSE [st |-> st, out |-> out]

\* for _, wm := range q.queryBuf
RECURSIVE GetLoop(_, _, _, _, _, _)
GetLoop(q, n, i, currWeight, st, out) ==
    IF i > Len(q.queryBuf) \/ st.idx >= n THEN out
    ELSE LET w == currWeight + q.queryBuf[i].weight
             f == GetFill(q, n, q.queryBuf[i].metric, w, st, out)
         IN GetLoop(q, n, i + 1, w, f.st, f.out)

\* q.Get(numBuckets)
Get(q, n) ==
    IF n <= 1 THEN <<q.min, q.max>>
    ELSE GetLoop(q, n, 1, 0, [idx |-> 1, k |-> 1],
                 [i \in 1..(n + 1) |-> IF i = 1 THEN q.min ELSE IF i = n + 1 THEN q.max ELSE 0])

\* a goroutine that panics ends the process
QCrashed == \E i \in Sketches : qs[i].panicked

NoSnap == [of |-> 0, q |-> QResult(NewQuantileState(1))]
NoAnswer == [op |-> "none", n |-> 0, out |-> <<>>]
NoMerge == [done |-> FALSE, ab |-> MergeFrom(NewQuantileState(1), NewQuantileState(1)),
            ba |-> MergeFrom(NewQuantileState(1), NewQuantileState(1))]

\* qs[i].AddMetric(metric)
QAddMetric(i, metric) ==
    /\ ~QCrashed
    /\ qsnap = NoSnap /\ ~qmrg.done
    /\ Len(qadded[i]) < MaxAdds
    /\ qs' = [qs EXCEPT ![i] = AddMetric(@, metric)]
    /\ qadded' = [qadded EXCEPT ![i] = Append(@, metric)]
    /\ UNCHANGED <<qsnap, qout, qmrg, qmout>>
    /\ UNCHANGED nonQuantVars

\* qs[i].Result()
QSnapshot(i) ==
    /\ ~QCrashed
    /\ qsnap = NoSnap /\ ~qmrg.done
    /\ qsnap' = [of |-> i, q |-> QResult(qs[i])]
    /\ UNCHANGED <<qs, qadded, qout, qmrg, qmout>>
    /\ UNCHANGED nonQuantVars

\* Get(n) on the snapshot
QGet(n) ==
    /\ qsnap # NoSnap
    /\ qout' = [op |-> "get", n |-> n, out |-> Get(qsnap.q, n)]
    /\ UNCHANGED <<qs, qadded, qsnap, qmrg, qmout>>
    /\ UNCHANGED nonQuantVars

\* At(r) on the snapshot
QAt(r) ==
    /\ qsnap # NoSnap
    /\ qout' = [op |-> "at", n |-> r, out |-> <<At(qsnap.q, r[1], r[2])>>]
    /\ UNCHANGED <<qs, qadded, qsnap, qmrg, qmout>>
    /\ UNCHANGED nonQuantVars

\* copies of the two states are made; 1 merges from 2, and 2 merges from 1
QMerge ==
    /\ ~QCrashed
    /\ qsnap = NoSnap /\ ~qmrg.done
    /\ qmrg' = [done |-> TRUE, ab |-> MergeFrom(qs[1], qs[2]), ba |-> MergeFrom(qs[2], qs[1])]
    /\ UNCHANGED <<qs, qadded, qsnap, qout, qmout>>
    /\ UNCHANGED nonQuantVars

\* Result().Get(n) on both merged states
QGetMerged(n) ==
    /\ qmrg.done
    /\ ~qmrg.ab.qs.panicked /\ ~qmrg.ba.qs.panicked
    /\ qmout' = [op |-> "get", n |-> n,
                 out |-> <<Get(QResult(qmrg.ab.qs), n), Get(QResult(qmrg.ba.qs), n)>>]
    /\ UNCHANGED <<qs, qadded, qsnap, qout, qmrg>>
    /\ UNCHANGED nonQuantVars

\* no MergeFrom call made on a state itself
NoInto == [calls |-> 0, err |-> "nil"]

\* qs[1].MergeFrom(qs[2]): state 1 takes in what state 2 holds
QMergeInto ==
    /\ ~QCrashed
    /\ qsnap = NoSnap /\ ~qmrg.done
    /\ qinto.calls < MaxMerges
    /\ LET r == MergeFrom(qs[1], qs[2])
       IN  /\ qs' = [qs EXCEPT ![1] = r.qs]
           /\ qinto' = [calls |-> qinto.calls + 1, err |-> r.err]
           /\ qadded' = IF r.err = "nil" THEN [qadded EXCEPT ![1] = @ \o qadded[2]]
                        ELSE qadded
    /\ UNCHANGED <<qsnap, qout, qmrg, qmout>>
    /\ UNCHANGED <<coreVars, metricVars, inspVars, collectVars, pathVars, sx, fx>>

InitQuantIdle ==
    /\ qs = [i \in Sketches |-> NewQuantileState(1)]
    /\ qadded = [i \in Sketches |-> <<>>]
    /\ qsnap = NoSnap
    /\ qout = NoAnswer
    /\ qmrg = NoMerge
    /\ qmout = NoAnswer

(***************************************************************************)
(* Resource paths (ParseResourcePath, ResourceSpec.String)                 *)
(***************************************************************************)
\* strings are sequences of characters
Digits == <<"0", "1", "2", "3", "4", "5", "6", "7", "8", "9">>
IsDigit(c) == \E d \in 1..10 : Digits[d] = c
\* \s of the pattern
IsSpace(c) == c = " "

\* const localMediaName = "local", written lo
localMediaName == <<"l", "o">>
\* the keys of storageMediaMap: local and gs
storageMediaMap == {<<"l", "o">>, <<"g", "s">>}
\* the format names used
FormatNames == {<<"r">>, <<"t", "x">>}
\* the segments paths are made of; none is a media name
SegNames == {<<"t">>, <<"d", "b">>}
\* the shard counts written after @; 0 stands for no @ part
ShardCounts == {0, 4, 10}

\* the segments joined by "/"
RECURSIVE JoinSegs(_)
JoinSegs(segs) ==
    IF Len(segs) = 1 THEN segs[1]
    ELSE segs[1] \o <<"/">> \o JoinSegs(Tail(segs))

\* strconv.Atoi of a run of digits
RECURSIVE Atoi(_)
Atoi(ds) ==
    IF ds = <<>> THEN 0
    ELSE Atoi(SubSeq(ds, 1, Len(ds) - 1)) * 10
         + (CHOOSE d \in 1..10 : Digits[d] = ds[Len(ds)]) - 1

\* %d of a number that is not negative
RECURSIVE FormatInt(_)
FormatInt(n) ==
    IF n < 10 THEN <<Digits[n + 1]>>
    ELSE FormatInt(n \div 10) \o <<Digits[(n % 10) + 1]>>

\* the paths <path>: absolute or relative, of 1..MaxSegs segments
PathParts ==
    {(IF abs THEN <<"/">> ELSE <<>>) \o JoinSegs(segs) :
        abs \in BOOLEAN, segs \in UNION {[1..n -> SegNames] : n \in 1..MaxSegs}}

\* the well-formed resource paths <format>:[/<media>]<path>[@<num_shards>]; a media
\* segment is followed by an absolute path
WellFormedPaths ==
    {f \o <<":">> \o mp \o (IF n = 0 THEN <<>> ELSE <<"@">> \o FormatInt(n)) :
        f \in FormatNames, n \in ShardCounts,
        mp \in PathParts \cup {<<"/">> \o md \o p : md \in storageMediaMap,
                                                    p \in {q \in PathParts : q[1] = "/"}}}

NoSpace(s) == \A i \in 1..Len(s) : ~IsSpace(s[i])

\* ([^@\s]+)(@\d+)?$ on the rest of the string
MatchRest(r) ==
    LET ats == {j \in 1..Len(r) : r[j] = "@"} IN
    IF ats = {}
    THEN [ok |-> r # <<>> /\ NoSpace(r), path |-> r, shards |-> <<>>]
    ELSE LET j == CHOOSE x \in ats : \A y \in ats : x <= y IN
         [ok |-> /\ j > 1
                 /\ NoSpace(SubSeq(r, 1, j - 1))
                 /\ j < Len(r)
                 /\ \A k \in (j + 1)..Len(r) : IsDigit(r[k]),
          path |-> SubSeq(r, 1, j - 1),
          shards |-> SubSeq(r, j, Len(r))]

\* resourcePathPattern "^([^\s]+)\:([^@\s]+)(@\d+)?$": the places of the colon at
\* which the string matches; the greedy first group takes the last of them
ColonsThatMatch(s) ==
    {i \in 2..Len(s) : /\ s[i] = ":"
                       /\ NoSpace(SubSeq(s, 1, i - 1))
                       /\ MatchRest(SubSeq(s, i + 1, Len(s))).ok}

NoSpec == [Format |-> <<>>, Media |-> <<>>, Path |-> <<>>, NumShards |-> 0]

\* strings.SplitN(rc.Path[1:], "/", 2): the index of the first "/" after the leading
\* one, 0 when the split has only one part
SplitAt(path) ==
    LET sl == {j \in 2..Len(path) : path[j] = "/"} IN
    IF sl = {} THEN 0 ELSE CHOOSE x \in sl : \A y \in sl : x <= y

\* _, ok := storageMediaMap[pair[0]]
MediaKnown(name) == name \in storageMediaMap

\* ParseResourcePath(path)
ParseResourcePath(s) ==
    LET cs == ColonsThatMatch(s) IN
    IF cs = {} THEN [err |-> "ErrMalformedPath", rc |-> NoSpec]
    ELSE LET i == CHOOSE x \in cs : \A y \in cs : x >= y
             m == MatchRest(SubSeq(s, i + 1, Len(s)))
             at == IF m.path[1] = "/" THEN SplitAt(m.path) ELSE 0
             media == at > 0 /\ MediaKnown(SubSeq(m.path, 2, at - 1))
         IN [err |-> "nil",
             rc |-> [Format |-> SubSeq(s, 1, i - 1),
                     Media |-> IF media THEN SubSeq(m.path, 2, at - 1) ELSE localMediaName,
                     Path |-> IF media THEN SubSeq(m.path, at, Len(m.path)) ELSE m.path,
                     NumShards |-> IF m.shards = <<>> THEN 0 ELSE Atoi(Tail(m.shards))]]

\* rc.Sharded()
Sharded(rc) == rc.NumShards > 0

\* rc.String()
String(rc) ==
    LET path == IF rc.Media = localMediaName /\ rc.Path[1] # "/"
                THEN <<".", "/">> \o rc.Path ELSE rc.Path
    IN rc.Format \o <<":", "/">> \o rc.Media \o path
       \o (IF Sharded(rc) THEN <<"@">> \o FormatInt(rc.NumShards) ELSE <<>>)

RpIdle == [pc |-> "idle", s |-> <<>>, err |-> "nil", rc |-> NoSpec, out |-> <<>>]

\* rc, err := ParseResourcePath(s)
PathParse ==
    /\ rp.pc = "input"
    /\ LET r == ParseResourcePath(rp.s) IN
       rp' = [rp EXCEPT !.pc = "parsed", !.err = r.err, !.rc = r.rc]
    /\ UNCHANGED nonPathVars

\* rc.String()
PathFormat ==
    /\ rp.pc = "parsed"
    /\ rp.err = "nil"
    /\ rp' = [rp EXCEPT !.pc = "formatted", !.out = String(rp.rc)]
    /\ UNCHANGED nonPathVars

(***************************************************************************)
(* Specifications of the memory table                                      *)
(***************************************************************************)
InitMem ==
    /\ itemKind \in {"sum", "any"}
    /\ items = [s \in Shards |-> [k \in Keys |-> NoItem]]
    /\ banned = [s \in Shards |-> [k \in Keys |-> NoErr]]
    /\ numKeysVar = [s \in Shards |-> 0]
    /\ errVar = 0
    /\ locks = [s \in Shards |-> FALSE]
    /\ th = [t \in Procs |-> Idle]
    /\ ops = 0
    /\ factoryCalls = [k \in Keys |-> 0]
    /\ created = [k \in Keys |-> 0]
    /\ active = [k \in Keys |-> 0]
    /\ fedSum = [k \in Keys |-> 0]
    /\ fedKeys = {}
    /\ fin = FinIdle
    /\ sh = [s \in Shards |-> ShIdle]
    /\ coll = NoColl
    /\ writers = [i \in PShards |-> NoWriter]
    /\ finCalls = [k \in Keys |-> 0]
    /\ childOut = [k \in Keys |-> NoOut]
    /\ collFed = [k \in Keys |-> 0]
    /\ overlap = FALSE

\* a window nobody has fed
InitWinIdle ==
    /\ win = WinEmpty
    /\ winMu = FALSE
    /\ droppedCount = 0
    /\ droppedRecs = 0
    /\ wth = [t \in WProcs |-> WIdle]
    /\ winOps = 0
    /\ nextFrame = 0
    /\ pending = {}
    /\ scheduled = {}
    /\ frameFactoryKind = "clean"
    /\ latestOut = NoLatest

\* a hub nobody has registered with
InitHubIdle ==
    /\ hubTopics = EmptyMap
    /\ topicCount = [id \in TopicIds |-> 0]
    /\ deadLetterVar = 0
    /\ pub = [p \in PubProcs |-> PubIdle]
    /\ regOps = 0
    /\ pubCalls = [id \in TopicIds |-> 0]
    /\ emitCalls = [x \in Subs |-> 0]

\* no shard index computed from an arbitrary hash
InitExtraIdle ==
    /\ sx = SxIdle
    /\ fx = FxIdle
    /\ qinto = NoInto

InitMoreIdle ==
    /\ InitMetricsIdle
    /\ InitQuantIdle
    /\ InitInspIdle
    /\ InitCollectIdle
    /\ rp = RpIdle
    /\ InitExtraIdle

InitRestIdle ==
    /\ InitHubIdle
    /\ al = AlIdle
    /\ InitBatchIdle
    /\ InitMoreIdle

\* a memory table with no persistent target, fed, inspected and finalized concurrently
Init ==
    /\ InitMem
    /\ persist = -1
    /\ InitWinIdle
    /\ maxSeqAdvance = 0
    /\ InitRestIdle

Next ==
    \/ \E t \in Procs, k \in Keys, v \in Values : EmitCall(t, k, v)
    \/ \E t \in Procs : EmitFactory(t)
    \/ \E t \in Procs : EmitFeed(t)
    \/ \E t \in Procs : EmitFed(t)
    \/ \E t \in Procs : EmitReturn(t)
    \/ \E t \in Procs, k \in Keys : InspectCall(t, k)
    \/ \E t \in Procs : InspectEnd(t)
    \/ ResultStart
    \/ \E s \in Shards : ShardLock(s)
    \/ \E s \in Shards, k \in Keys : ShardVisit(s, k)
    \/ \E s \in Shards : ShardVisited(s)
    \/ \E s \in Shards : ShardWalked(s)
    \/ \E s \in Shards : ShardUnlock(s)
    \/ ResultJoin

Spec == Init /\ [][Next]_vars

\* a memory table with a persistent target, unsharded or sharded, fed by one
\* goroutine and finalized once the feeds have returned
InitPersist ==
    /\ InitMem
    /\ persist \in {0, PersistShards}
    /\ InitWinIdle
    /\ maxSeqAdvance = 0
    /\ InitRestIdle

NextPersist ==
    \/ \E k \in Keys, v \in Values : fin.pc = "idle" /\ EmitCall(1, k, v)
    \/ EmitFactory(1)
    \/ EmitFeed(1)
    \/ EmitFed(1)
    \/ EmitReturn(1)
    \/ th[1].pc = "idle" /\ ResultStart
    \/ \E s \in Shards : ShardLock(s)
    \/ \E s \in Shards, k \in Keys : ShardVisit(s, k)
    \/ \E s \in Shards : ShardVisited(s)
    \/ \E s \in Shards : ShardWalked(s)
    \/ \E s \in Shards, k \in Keys : ShardCollect(s, k)
    \/ \E s \in Shards : ShardUnlock(s)
    \/ ResultJoin

SpecPersist == InitPersist /\ [][NextPersist]_vars

(***************************************************************************)
(* Specification of the sliding window                                     *)
(***************************************************************************)
\* a window fed and finalized by two goroutines, with and without MaxSeqAdvance
InitWindow ==
    /\ InitMem
    /\ itemKind = "sum"
    /\ persist = -1
    /\ InitWinIdle
    /\ maxSeqAdvance \in SeqAdvances
    /\ InitRestIdle

NextWindow ==
    \/ \E t \in WProcs, seq \in Seqs : WinPrepare(t, seq)
    \/ \E t \in WProcs : WinEmitDropped(t)
    \/ \E t \in WProcs : WinEmitFailed(t)
    \/ \E t \in WProcs : WinEmitFeed(t)
    \/ \E t \in WProcs : WinEmitDone(t)
    \/ \E f \in pending : WinFrameResult(f)
    \/ \E t \in WProcs : WinResultCall(t)
    \/ \E t \in WProcs : WinResultReturn(t)

SpecWindow == InitWindow /\ [][NextWindow]_vars

\* the same window with any frame factory, and with LatestFrame called between feeds
InitFrames ==
    /\ InitMem
    /\ itemKind = "sum"
    /\ persist = -1
    /\ win = WinEmpty
    /\ winMu = FALSE
    /\ droppedCount = 0
    /\ droppedRecs = 0
    /\ wth = [t \in WProcs |-> WIdle]
    /\ winOps = 0
    /\ nextFrame = 0
    /\ pending = {}
    /\ scheduled = {}
    /\ frameFactoryKind \in {"clean", "any"}
    /\ latestOut = NoLatest
    /\ maxSeqAdvance \in SeqAdvances
    /\ InitRestIdle

NextFrames ==
    \/ \E t \in WProcs, seq \in Seqs : WinPrepare(t, seq)
    \/ \E t \in WProcs : WinEmitDropped(t)
    \/ \E t \in WProcs : WinEmitFailed(t)
    \/ \E t \in WProcs : WinEmitFeed(t)
    \/ \E t \in WProcs : WinEmitDone(t)
    \/ \E f \in pending : WinFrameResult(f)
    \/ \E t \in WProcs : WinResultCall(t)
    \/ \E t \in WProcs : WinResultReturn(t)
    \/ \E t \in WProcs : WinLatestFrame(t)

SpecFrames == InitFrames /\ [][NextFrames]_vars

(***************************************************************************)
(* Specification of the hub                                                *)
(***************************************************************************)
\* saws register during setup, then two goroutines publish: Publish reads
\* hub.topics without hub.mu, so a Register during the data flow is a data race
InitHub ==
    /\ InitMem
    /\ itemKind = "sum"
    /\ persist = -1
    /\ InitWinIdle
    /\ maxSeqAdvance = 0
    /\ InitRestIdle

NextHub ==
    \/ \E x \in Subs, ids \in Subscribes :
          pubCalls = [id \in TopicIds |-> 0] /\ HubRegister(x, ids)
    \/ \E p \in PubProcs, id \in TopicIds : HubPublish(p, id)
    \/ \E p \in PubProcs : HubDeadLetter(p)
    \/ \E p \in PubProcs : HubDeliver(p)
    \/ \E p \in PubProcs : HubCount(p)
    \/ \E p \in PubProcs : HubReturn(p)

SpecHub == InitHub /\ [][NextHub]_vars

\* the same hub when one of the topic ids saws register with and publish to is
\* "DEAD"
InitHubDead ==
    /\ InitMem
    /\ itemKind = "sum"
    /\ persist = -1
    /\ InitWinIdle
    /\ maxSeqAdvance = 0
    /\ hubTopics = EmptyMap
    /\ topicCount = [id \in DeadTopicIds |-> 0]
    /\ deadLetterVar = 0
    /\ pub = [p \in PubProcs |-> PubIdle]
    /\ regOps = 0
    /\ pubCalls = [id \in DeadTopicIds |-> 0]
    /\ emitCalls = [x \in Subs |-> 0]
    /\ al = AlIdle
    /\ InitBatchIdle
    /\ InitMoreIdle

NextHubDead ==
    \/ \E x \in Subs, ids \in SubscribesDead : PubTotal = 0 /\ HubRegister(x, ids)
    \/ \E p \in PubProcs, id \in DeadTopicIds : HubPublish(p, id)
    \/ \E p \in PubProcs : HubDeadLetter(p)
    \/ \E p \in PubProcs : HubDeliver(p)
    \/ \E p \in PubProcs : HubCount(p)
    \/ \E p \in PubProcs : HubReturn(p)

SpecHubDead == InitHubDead /\ [][NextHubDead]_vars

(***************************************************************************)
(* Specification of the dealing loop of runSingleBatch                     *)
(***************************************************************************)
InitAlloc ==
    /\ InitMem
    /\ itemKind = "sum"
    /\ persist = -1
    /\ InitWinIdle
    /\ maxSeqAdvance = 0
    /\ InitHubIdle
    /\ InitBatchIdle
    /\ InitMoreIdle
    /\ al \in {AlStart(w, s) : w \in 1..MaxAlloc, s \in 1..MaxAlloc}

NextAlloc == AllocStep

SpecAlloc == InitAlloc /\ [][NextAlloc]_vars

(***************************************************************************)
(* Specification of the batch runner                                       *)
(***************************************************************************)
InitBatch ==
    /\ InitMem
    /\ itemKind = "sum"
    /\ persist = -1
    /\ InitWinIdle
    /\ maxSeqAdvance = 0
    /\ InitHubIdle
    /\ al = AlIdle
    /\ bcfg \in [Batches -> BatchSpecs1 \cup BatchSpecs2]
    /\ bcfg[1] \in BatchSpecs1
    /\ bcfg[2] \in BatchSpecs2
    /\ runner = "idle"
    /\ prod = [k \in ProdKeys |-> NoProd]
    /\ queues = [k \in QueueKeys |-> NoQueue]
    /\ wgTasks = 0
    /\ ran = [k \in QueueKeys |-> <<>>]
    /\ readRecs = {}
    /\ late = 0
    /\ InitMoreIdle

NextBatch ==
    \/ RunBatchStart
    \/ \E b \in Batches, i \in ProdIds : ProdNewPar(b, i)
    \/ \E b \in Batches, i \in ProdIds : ProdOpen(b, i)
    \/ \E b \in Batches, i \in ProdIds : ProdRead(b, i)
    \/ \E b \in Batches, i \in ProdIds : ProdSend(b, i)
    \/ \E b \in Batches, i \in ProdIds, j \in QIdx : QueueTake(b, i, j)
    \/ \E b \in Batches, i \in ProdIds, j \in QIdx : QueueRun(b, i, j)
    \/ JoinStart
    \/ JoinClose

SpecBatch == InitBatch /\ [][NextBatch]_vars

\* a run of one batch of any shape, or of two batches where the first feeds
\* unbuffered hash-sharded queues
InitBatchFair ==
    /\ InitBatch
    /\ bcfg[2] # NoBatch => (bcfg[1].hash /\ bcfg[1].buf = 0)

\* the Go scheduler runs every goroutine that can take a step: a goroutine
\* blocked on a channel or a wait group is the only one that waits
SpecBatchFair == InitBatchFair /\ [][NextBatch]_vars /\ WF_vars(NextBatch)

(***************************************************************************)
(* Specification of the metrics registry                                   *)
(***************************************************************************)
\* tables, window, hub and batch runner untouched
InitCoreIdle ==
    /\ InitMem
    /\ itemKind = "sum"
    /\ persist = -1
    /\ InitWinIdle
    /\ maxSeqAdvance = 0
    /\ InitHubIdle
    /\ al = AlIdle
    /\ InitBatchIdle

InitMetrics ==
    /\ InitCoreIdle
    /\ InitMoreIdle

NextMetrics ==
    \/ \E p \in MProcs, kind \in VarKinds, ns \in Namespaces, name \in MetricNames :
          ReportCall(p, kind, ns, name)
    \/ \E p \in MProcs : ReportLock(p)
    \/ \E p \in MProcs : ReportGet(p)
    \/ \E p \in MProcs : ReportNew(p)
    \/ \E p \in MProcs, h \in handles : VarAdd(p, h)

SpecMetrics == InitMetrics /\ [][NextMetrics]_vars

(***************************************************************************)
(* Specification of the quantile sketch                                    *)
(***************************************************************************)
InitQuantile ==
    /\ InitCoreIdle
    /\ InitExtraIdle
    /\ InitMetricsIdle
    /\ InitInspIdle
    /\ InitCollectIdle
    /\ rp = RpIdle
    /\ qs \in [Sketches -> {NewQuantileState(b) : b \in BufferSizes}]
    /\ qadded = [i \in Sketches |-> <<>>]
    /\ qsnap = NoSnap
    /\ qout = NoAnswer
    /\ qmrg = NoMerge
    /\ qmout = NoAnswer

NextQuantile ==
    \/ \E i \in Sketches, metric \in Metrics : QAddMetric(i, metric)
    \/ \E i \in Sketches : QSnapshot(i)
    \/ \E n \in 0..MaxBuckets : QGet(n)
    \/ \E r \in Ratios : QAt(r)
    \/ QMerge
    \/ \E n \in 0..MaxBuckets : QGetMerged(n)

SpecQuantile == InitQuantile /\ [][NextQuantile]_vars

(***************************************************************************)
(* Specification of inspection: a memory table is fed, then inspected      *)
(***************************************************************************)
NextInspect ==
    \/ \E k \in Keys, v \in Values : insp.pc = "idle" /\ EmitCall(1, k, v)
    \/ EmitFactory(1)
    \/ EmitFeed(1)
    \/ EmitFed(1)
    \/ EmitReturn(1)
    \/ \E k \in Keys : th[1].pc = "idle" /\ InspectOne(k)
    \/ \E keys \in KeyLists, c \in BOOLEAN : th[1].pc = "idle" /\ InspectSetCall(keys, c)
    \/ \E c \in BOOLEAN : th[1].pc = "idle" /\ InspectAllCall(c)
    \/ \E s \in Shards : InspectShardLock(s)
    \/ \E s \in Shards : InspectVisit(s)
    \/ \E s \in Shards : InspectVisited(s)
    \/ \E s \in Shards : InspectShardEnd(s)
    \/ InspectJoin

SpecInspect == Init /\ [][NextInspect]_vars

(***************************************************************************)
(* Specification of a collect table fed and finalized by its users         *)
(***************************************************************************)
\* the table has one shard for an unsharded resource, else PersistShards
InitCollect ==
    /\ InitCoreIdle
    /\ InitExtraIdle
    /\ InitMetricsIdle
    /\ InitQuantIdle
    /\ InitInspIdle
    /\ rp = RpIdle
    /\ ctab \in {NewCollectTable(1), NewCollectTable(PersistShards)}
    /\ cwr = [i \in PShards |-> OpenWriter]
    /\ cfeed = [p \in CProcs |-> CFeedIdle]
    /\ cres = CResIdle
    /\ collectOps = 0

NextCollect ==
    \/ \E p \in CProcs, k \in Keys : CollectEmitCall(p, k)
    \/ \E p \in CProcs : CollectEmitLock(p)
    \/ \E p \in CProcs : CollectEmitWrite(p)
    \/ CollectResultCall
    \/ CollectResultClose
    \/ CollectResultReturn

SpecCollect == InitCollect /\ [][NextCollect]_vars

(***************************************************************************)
(* Specification of resource paths: a well-formed path is parsed, and the  *)
(* ResourceSpec is formatted                                               *)
(***************************************************************************)
InitPath ==
    /\ InitCoreIdle
    /\ InitExtraIdle
    /\ InitMetricsIdle
    /\ InitQuantIdle
    /\ InitInspIdle
    /\ InitCollectIdle
    /\ rp \in {[RpIdle EXCEPT !.pc = "input", !.s = s] : s \in WellFormedPaths}

NextPath ==
    \/ PathParse
    \/ PathFormat

SpecPath == InitPath /\ [][NextPath]_vars

(***************************************************************************)
(* Properties of the tables                                                *)
(***************************************************************************)
ResultKeys == DOMAIN fin.resultMap
\* SimpleTable.Result of shard s has returned and the shard lock is still held
ShardResultReturned(s) == sh[s].pc \in {"collect", "unlock"}
FailedChildren(s) == {k \in Keys : ShardOf(k) = s /\ finCalls[k] > 0 /\ childOut[k].e # NoErr}
AllRecs == UNION {writers[i].recs : i \in PShards}
TotalWrites[n \in 0..PersistShards] ==
    IF n = 0 THEN 0 ELSE TotalWrites[n - 1] + writers[n - 1].writes

\* C1: at most one call into the saw owned for a key (its Emit, its Result, an
\* inspection callback on it) is in progress at any moment, for any interleaving
\* of concurrent Emit, Inspect and Result calls on the memory table.
C1_PerKeySerialized == \A k \in Keys : active[k] <= 1

\* a saw is being fed while the finalizing goroutine of its shard waits for the lock
C1_Witness ==
    /\ active["a"] = 1
    /\ \E t \in Procs : th[t].pc = "feeding" /\ th[t].key = "a"
    /\ sh[ShardOf("a")].pc = "lock"
    /\ locks[ShardOf("a")]

\* C2: for every key the memory table calls the item factory at most once and at
\* most one saw is ever created for it, whether the factory succeeded or failed.
C2_FactoryOncePerKey == \A k \in Keys : factoryCalls[k] <= 1 /\ created[k] <= 1

\* a second feed of a key found the saw of the first and called no factory
C2_Witness ==
    /\ factoryCalls["a"] = 1
    /\ fedSum["a"] = 1
    /\ \E t \in Procs : th[t].key = "a" /\ th[t].pc = "feed" /\ ~th[t].called

\* C3: for a memory table of Sum saws, once all Emit calls have returned, Result
\* returns a map whose keys are exactly the fed keys, each mapped to the sum of
\* the values fed for it.
C3_SumResult ==
    (fin.pc = "returned" /\ itemKind = "sum" /\ ~overlap) =>
        /\ ResultKeys = fedKeys
        /\ \A k \in fedKeys : fin.resultMap[k] = fedSum[k]

\* two feeds of one key from two goroutines were summed
C3_Witness ==
    /\ fin.pc = "returned" /\ itemKind = "sum" /\ ~overlap
    /\ fedSum["a"] = 2
    /\ fin.resultMap["a"] = 2

\* C4: in a simple table, once the factory has failed for a key, the key stays
\* banned with that error, the factory is not called again, no saw exists for the
\* key, and a feed of the key calls no child Emit and returns the cached error.
C4_PoisonedKey ==
    \A k \in Keys :
        LET s == ShardOf(k)
        IN  factoryCalls[k] > created[k] =>
              /\ banned[s][k] = <<"factory", k, 1>>
              /\ factoryCalls[k] = 1
              /\ created[k] = 0
              /\ items[s][k] = NoItem
              /\ \A t \in Procs :
                   (th[t].pc \in EmitPcs /\ th[t].key = k) =>
                      (th[t].pc = "unlock" /\ th[t].ret = banned[s][k])

\* a later feed of a banned key is about to return the cached error
C4_Witness ==
    \E t \in Procs :
        /\ th[t].pc = "unlock"
        /\ ~th[t].called
        /\ th[t].key = "a"
        /\ th[t].ret = <<"factory", "a", 1>>

\* C5: simple table Result calls Result on every owned child exactly once, and if
\* a child's Result failed the table's Result returns one of the child errors,
\* whatever the order of the visits.
C5_ChildErrorSurfaced ==
    \A s \in Shards :
        ShardResultReturned(s) =>
            /\ \A k \in Keys : items[s][k] # NoItem => finCalls[k] = 1
            /\ FailedChildren(s) # {} => sh[s].err \in {childOut[k].e : k \in FailedChildren(s)}

\* C6: the result map of table Result holds exactly the keys whose saw exists and
\* whose Result returned a non-nil value and no error, each mapped to that value;
\* keys with a nil result, a failed Result or a banned key are absent.
C6_ResultMapKeys ==
    /\ fin.pc = "returned" =>
         \A k \in Keys :
            /\ k \in ResultKeys <=>
                 (finCalls[k] > 0 /\ childOut[k].v # NoVal /\ childOut[k].e = NoErr)
            /\ k \in ResultKeys => fin.resultMap[k] = childOut[k].v
            /\ banned[ShardOf(k)][k] # NoErr => k \notin ResultKeys
    /\ \A s \in Shards : ShardResultReturned(s) =>
         \A k \in Keys :
            k \in DOMAIN sh[s].ret <=>
               (items[s][k] # NoItem /\ childOut[k].v # NoVal /\ childOut[k].e = NoErr)

\* one child returned a nil result and is absent, another is present
C6_Witness ==
    /\ fin.pc = "returned"
    /\ "a" \in ResultKeys
    /\ finCalls["c"] = 1 /\ childOut["c"] = [v |-> NoVal, e |-> NoErr]
    /\ "c" \notin ResultKeys

\* C7: memory table Result completes with partial success: if opening the
\* persistent target failed, a write failed or a child failed to finalize, every
\* child is still finalized, the map holds every good result and the error
\* returned is not nil.
C7_PartialSuccessError ==
    (fin.pc = "returned" /\ ~overlap) =>
        /\ \A k \in Keys : items[ShardOf(k)][k] # NoItem => finCalls[k] = 1
        /\ \A k \in Keys : (finCalls[k] = 1 /\ childOut[k].v # NoVal /\ childOut[k].e = NoErr)
                              => (k \in ResultKeys /\ fin.resultMap[k] = childOut[k].v)
        /\ (coll.state = "failed" \/ coll.errs > 0 \/ \E s \in Shards : FailedChildren(s) # {})
              => fin.finalErr # NoErr

\* C8 as stated: when a memory table with a persistent target is finalized,
\* every pair of the returned result map is fed to the collect table exactly
\* once, and nothing is fed to the collect table after it was closed.
C8_FedOnceWhenPersistent ==
    /\ coll.lateFeeds = 0
    /\ coll.state = "closed" => \A s \in Shards : sh[s].pc = "done"
    /\ (fin.pc = "returned" /\ persist >= 0) =>
          \A k \in Keys : collFed[k] = IF k \in ResultKeys THEN 1 ELSE 0

\* C8 amended: when a memory table with a persistent target is finalized and
\* NewCollectTable could open every writer, every pair of the returned result
\* map is fed to the collect table exactly once, and the collect table is closed
\* (each writer once) only after every shard was walked: nothing is fed to it
\* after the close. When a writer cannot be opened nothing is fed.
C8_CollectFedOnceThenClosed ==
    /\ coll.lateFeeds = 0
    /\ coll.state = "closed" => \A s \in Shards : sh[s].pc = "done"
    /\ (fin.pc = "returned" /\ coll.state = "closed") =>
          /\ \A k \in Keys : collFed[k] = IF k \in ResultKeys THEN 1 ELSE 0
          /\ coll.count = Cardinality(ResultKeys)
          /\ \A i \in PShards : writers[i].closes = IF i < coll.n THEN 1 ELSE 0
    /\ coll.state = "failed" => \A k \in Keys : collFed[k] = 0

\* two pairs were fed to the collect table and it was closed
C8_Witness ==
    /\ fin.pc = "returned" /\ coll.state = "closed"
    /\ Cardinality(ResultKeys) = 2
    /\ coll.count = 2

\* C9: a collect table writes each record to the writer of index
\* KeyHash(key) mod P, P the shard count of the persistent resource (1 when
\* unsharded), whatever the memory table's NumShards; after a Result without
\* error the records written are the result map, each key in one writer.
C9_CollectSharding ==
    LET P == IF persist > 0 THEN persist ELSE 1
    IN  /\ coll.state # "none" /\ coll.state # "failed" => coll.n = P
        /\ \A i \in PShards : \A r \in writers[i].recs : i = KeyHash(r[1]) % P
        /\ (fin.pc = "returned" /\ persist >= 0 /\ fin.finalErr = NoErr) =>
              /\ coll.state = "closed"
              /\ AllRecs = {<<k, fin.resultMap[k]>> : k \in ResultKeys}
              /\ TotalWrites[PersistShards] = Cardinality(ResultKeys)

\* two keys of one memory shard were written to two different persistent shards
C9_Witness ==
    /\ fin.pc = "returned" /\ coll.state = "closed" /\ fin.finalErr = NoErr
    /\ persist = PersistShards
    /\ ResultKeys = {"a", "c"}
    /\ writers[KeyHash("a") % PersistShards].recs # {}
    /\ writers[KeyHash("c") % PersistShards].recs # {}

(***************************************************************************)
(* Properties of the sliding window                                        *)
(***************************************************************************)
LiveSlots == {i \in Slots : win.frames[i] # NoFrame}

\* C10: after any sequence of feeds the number of live frames is at most
\* WindowSize and every live frame, created for sequence s, has
\* startSeq <= s <= startSeq + WindowSize - 1.
C10_FramesInRange ==
    /\ Cardinality(LiveSlots) <= WindowSize
    /\ \A i \in LiveSlots :
          /\ win.startSeq <= win.frames[i].seq
          /\ win.frames[i].seq <= win.startSeq + WindowSize - 1

\* a datum was accepted by a window holding data and made the window slide
Slid(t) ==
    /\ wth[t].pc = "idle" /\ wth'[t].pc = "feed"
    /\ nextFrame' = nextFrame + 1
    /\ win.hasData
    /\ wth'[t].seq - win.startSeq >= WindowSize

\* C11: when a non-empty window accepts a record with offset >= WindowSize, then
\* after the feed startSeq = seq - WindowSize + 1 and the new frame is the live
\* frame at the last window position; for offset < 2 * WindowSize the head has
\* advanced offset - WindowSize + 1 slots and every live slot passed was sent to
\* asyncFinalize; for offset >= 2 * WindowSize every live slot was sent to
\* asyncFinalize and startIdx = 0.
C11_SlideAdvance ==
    [][\A t \in WProcs :
         Slid(t) =>
           LET seq == wth'[t].seq
               offset == seq - win.startSeq
           IN  /\ win'.startSeq = seq - WindowSize + 1
               /\ win'.frames[IndexForOffset(win', WindowSize - 1)] = wth'[t].frame
               /\ wth'[t].frame = [id |-> nextFrame', seq |-> seq]
               /\ offset < 2 * WindowSize =>
                    /\ win'.startIdx = GoMod(win.startIdx + offset - WindowSize + 1, WindowSize)
                    /\ \A i \in 0..(offset - WindowSize) :
                         LET f == win.frames[IndexForOffset(win, i)]
                         IN  f # NoFrame => f \in scheduled' /\ f \in pending'
               /\ offset >= 2 * WindowSize =>
                    /\ win'.startIdx = 0
                    /\ LiveFrames(win) \subseteq scheduled'
                    /\ LiveFrames(win) \subseteq pending']_vars

\* C12: for a non-empty window every record whose offset is negative, or exceeds
\* MaxSeqAdvance when that is positive, adds exactly one to droppedCount, makes
\* Emit return nil, reaches no frame, creates no frame and leaves startSeq,
\* startIdx, latestSeq and the slots unchanged; nothing else changes droppedCount.
C12_DroppedOnce ==
    [][/\ \A t \in WProcs :
            (wth[t].pc = "idle" /\ wth'[t].pc = "dropped") =>
               /\ win' = win
               /\ nextFrame' = nextFrame
               /\ wth'[t].frame = NoFrame
               /\ wth'[t].ret = NoErr
       /\ (\A t \in WProcs : wth'[t].pc # "dropped") => droppedCount' = droppedRecs']_vars

\* C13: Window.Result returns only after the Result call of every frame sent to
\* asyncFinalize before or during it has completed; when it returns every slot
\* is empty and hasData is false.
C13_ResultWaits ==
    [][\A t \in WProcs :
         (wth[t].pc = "wait" /\ wth'[t].pc = "idle") =>
            /\ pending = {} /\ pending' = {}
            /\ LiveFrames(win') = {}
            /\ ~win'.hasData]_vars

\* Window.Result may return: frames evicted by sliding and frames live at the
\* call have all been finalized
C13_Witness ==
    \E t \in WProcs :
        /\ wth[t].pc = "wait"
        /\ pending = {}
        /\ Cardinality(scheduled) = WindowSize + 1
        /\ win = WinEmpty

Feeders(f) == {t \in WProcs : wth[t].pc = "feeding" /\ wth[t].frame = f}

\* C14: for any interleaving of concurrent feeds into one window, at most one
\* Emit call is in progress on any one frame at any time, also when two
\* concurrent records have the same sequence number.
C14_OneFeederPerFrame ==
    \A t \in WProcs : wth[t].pc = "feeding" => Cardinality(Feeders(wth[t].frame)) <= 1

(***************************************************************************)
(* Properties of the hub                                                   *)
(***************************************************************************)
Registered(id) == id \in DOMAIN hubTopics
\* the Publish calls on topic id that have not yet added to a counter
InFlight(id, pcs) == Cardinality({p \in PubProcs : pub[p].id = id /\ pub[p].pc \in pcs})
IsPrefix(a, b) == Len(a) <= Len(b) /\ \A i \in 1..Len(a) : a[i] = b[i]
\* the Emit calls owed to subscriber x by the publishes made so far
EmitsOwed(x, id) ==
    IF Registered(id)
    THEN topicCount[id] * Cardinality({i \in 1..Len(hubTopics[id]) : hubTopics[id][i] = x})
    ELSE 0
EmitsUnderWay(x, p) ==
    IF pub[p].pc \in {"emit", "count"}
    THEN Cardinality({i \in 1..Len(pub[p].got) : pub[p].got[i] = x})
    ELSE 0

\* C19: a Publish on a registered topic calls Emit on every subscriber of the
\* topic once, in registration order, before it returns, and adds one to the
\* topic's count metric; an error from a subscriber does not stop the delivery
\* to the later subscribers and Publish reports nothing.
C19_PublishDelivers ==
    /\ \A p \in PubProcs :
          /\ pub[p].pc \in {"emit", "count"} => IsPrefix(pub[p].got, hubTopics[pub[p].id])
          /\ pub[p].pc = "done" => pub[p].got = hubTopics[pub[p].id]
    /\ \A id \in TopicIds :
          Registered(id) => topicCount[id] + InFlight(id, {"emit", "count"}) = pubCalls[id]

\* a Publish went on to the second subscriber after the first one failed
C19_Witness ==
    \E p \in PubProcs :
        /\ pub[p].pc = "done"
        /\ pub[p].got = <<2, 1>>
        /\ pub[p].errs = 2
        /\ topicCount[pub[p].id] = 2

\* C20: N Publish calls, sequential or concurrent, on a topic id never
\* registered add exactly N to the dead letter counter, call no subscriber and
\* create no topic; Publish reports no error.
C20_DeadLetterCount ==
    /\ \A id \in TopicIds :
          ~Registered(id) =>
             /\ InFlight(id, {"emit", "count", "done"}) = 0
             /\ topicCount[id] = 0
    /\ deadLetterVar + InFlight("t1", {"dead"}) + InFlight("t2", {"dead"})
          = (IF Registered("t1") THEN 0 ELSE pubCalls["t1"])
              + (IF Registered("t2") THEN 0 ELSE pubCalls["t2"])
    /\ \A x \in Subs :
          emitCalls[x] = EmitsOwed(x, "t1") + EmitsOwed(x, "t2")
                           + EmitsUnderWay(x, 1) + EmitsUnderWay(x, 2)

\* two concurrent publishes and a third on an unknown topic were all counted
C20_Witness ==
    /\ deadLetterVar = MaxPubs
    /\ pubCalls["t2"] = MaxPubs
    /\ Registered("t1") /\ ~Registered("t2")
    /\ \A p \in PubProcs : pub[p].pc = "idle"

(***************************************************************************)
(* Properties of the dealing loop                                          *)
(***************************************************************************)
AllocDone == al.W > 0 /\ al.i = AllocTurns(al.W, al.S)
RECURSIVE SumRuns(_)
SumRuns(rs) == IF rs = <<>> THEN 0 ELSE Head(rs).n + SumRuns(Tail(rs))
Balanced(rs) == \A x \in 1..Len(rs), y \in 1..Len(rs) : rs[x].n - rs[y].n <= 1

\* C18: for W >= 1 queues and S >= 1 input shards: when W < S the shards
\* 0..S-1 are split into W contiguous runs, one per worker, covering every shard
\* once, none empty, sizes differing by at most one; when W >= S every input
\* shard has its own producer with at least one queue, the queue counts summing
\* to W and differing by at most one.
C18_BalancedRuns ==
    AllocDone =>
        /\ Len(al.runs) = AllocTurns(al.W, al.S)
        /\ \A x \in 1..Len(al.runs) : al.runs[x].n >= 1
        /\ Balanced(al.runs)
        /\ al.W < al.S =>
              /\ al.runs[1].start = 0
              /\ \A x \in 1..(Len(al.runs) - 1) :
                    al.runs[x + 1].start = al.runs[x].start + al.runs[x].n
              /\ SumRuns(al.runs) = al.S
        /\ al.W >= al.S =>
              /\ \A x \in 1..Len(al.runs) : al.runs[x].start = x - 1
              /\ SumRuns(al.runs) = al.W

\* seven shards were dealt to six workers, a rounding falling on a half
C18_Witness ==
    /\ AllocDone
    /\ al.W = 6 /\ al.S = 7
    /\ al.runs[3].n = 1 /\ al.runs[4].n = 2

(***************************************************************************)
(* Properties of the batch runner                                          *)
(***************************************************************************)
\* the runs of the tasks of record t that published it
Publishes(t) ==
    {e \in QueueKeys \X (1..(2 * RecsPerShard + 1)) :
        /\ e[2] <= Len(ran[e[1]])
        /\ ran[e[1]][e[2]].task = t
        /\ ran[e[1]][e[2]].pub}
ProducersDone == \A k \in ProdKeys : prod[k].pc \in {"none", "done"}
QueueQuiet(k) == queues[k].chn = <<>> /\ queues[k].running = NoTask

\* C15: for a batch run over any number of batch specs, every record read from
\* every input shard is published on its spec's topic exactly once, and all
\* those publishes have completed before RunBatch returns.
C15_ReadRecordsPublished ==
    /\ \A k \in QueueKeys : \A n \in 1..Len(ran[k]) :
          /\ ran[k][n].task \in readRecs
          /\ ran[k][n].topic = bcfg[ran[k][n].task.b].topic
    /\ \A t \in readRecs : Cardinality(Publishes(t)) <= 1
    /\ runner = "done" => \A t \in readRecs : Cardinality(Publishes(t)) = 1

\* C16: a batch job moves forward through idle, reading, draining, done: no
\* queue is closed while a producer is reading or a task is pending or running,
\* every queue is closed exactly once, and no task is sent to or received from
\* a closed queue.
C16_BatchPhases ==
    /\ runner = "idle" => \A k \in ProdKeys : prod[k].pc = "none"
    /\ runner \in {"idle", "reading"} => \A k \in QueueKeys : queues[k].state # "closed"
    /\ runner \in {"join", "done"} => ProducersDone
    /\ \A k \in QueueKeys :
          /\ queues[k].state = "closed" => (ProducersDone /\ wgTasks = 0 /\ QueueQuiet(k))
          /\ queues[k].closes = IF queues[k].state = "closed" THEN 1 ELSE 0
          /\ runner = "done" => queues[k].state # "open"
    /\ late = 0

\* the run is over: two queues that ran tasks were closed
C16_Witness ==
    /\ runner = "done"
    /\ queues[<<1, 0, 0>>].state = "closed" /\ ran[<<1, 0, 0>>] # <<>>
    /\ queues[<<1, 1, 0>>].state = "closed" /\ ran[<<1, 1, 0>>] # <<>>

\* C17: the records of one input shard scheduled onto one queue are published
\* in the order they were read: every record of the shard when the producer has
\* one queue, and the records of a hash >= 0 all on queue hash mod Q when it has
\* Q queues; a queue runs its tasks one at a time in FIFO order.
C17_ShardOrder ==
    \A k \in QueueKeys :
        /\ \A m \in 1..Len(ran[k]), n \in 1..Len(ran[k]) :
              (m < n /\ ran[k][m].task.s = ran[k][n].task.s)
                 => ran[k][m].task.x < ran[k][n].task.x
        /\ \A n \in 1..Len(ran[k]) :
              bcfg[k[1]].hash =>
                 k[3] = KeyHash(ran[k][n].task.key) % prod[<<k[1], k[2]>>].nq

\* two records of one shard with hashes of one residue ran in read order on
\* queue 0 of 2
C17_Witness ==
    /\ bcfg[1].hash /\ bcfg[1].S = 1 /\ bcfg[1].W = 2 /\ bcfg[1].buf > 0
    /\ Len(ran[<<1, 0, 0>>]) = 2
    /\ ran[<<1, 0, 0>>][1].task.x = 0
    /\ ran[<<1, 0, 0>>][2].task.x = 1

(***************************************************************************)
(* Properties of the metrics registry                                      *)
(***************************************************************************)
\* the Add(1) calls made through every variable returned for the name n
AddsOn(n) == addsVia[1][n] + addsVia[2][n]

MinOf(s) == CHOOSE x \in {s[j] : j \in 1..Len(s)} : \A j \in 1..Len(s) : x <= s[j]
MaxOf(s) == CHOOSE x \in {s[j] : j \in 1..Len(s)} : \A j \in 1..Len(s) : x >= s[j]

\* C22: once at least one value has been added to a sketch, however many, every
\* AddMetric call has returned, and At(0) of its snapshot is the smallest value added
\* and At(1) the largest.
C22_MinMaxAtEnds ==
    \A i \in Sketches :
       Len(qadded[i]) >= 1 =>
          /\ ~qs[i].panicked
          /\ At(QResult(qs[i]), 0, 1) = MinOf(qadded[i])
          /\ At(QResult(qs[i]), 1, 1) = MaxOf(qadded[i])

\* as long as no AddMetric call has panicked, At(0) and At(1) are the smallest and
\* the largest value added
MinMaxWhileAlive ==
    \A i \in Sketches :
       (Len(qadded[i]) >= 1 /\ ~qs[i].panicked) =>
          /\ At(QResult(qs[i]), 0, 1) = MinOf(qadded[i])
          /\ At(QResult(qs[i]), 1, 1) = MaxOf(qadded[i])

\* C23: on a snapshot taken after at least one value was added, Get(n) for n >= 2
\* has n + 1 elements, never decreases, starts with the smallest value added and ends
\* with the largest; for n <= 1 it is the pair of the two.
C23_GetShape ==
    (qout.op = "get" /\ qadded[qsnap.of] # <<>>) =>
       LET n == qout.n
           out == qout.out
           lo == MinOf(qadded[qsnap.of])
           hi == MaxOf(qadded[qsnap.of])
       IN IF n <= 1 THEN out = <<lo, hi>>
          ELSE /\ Len(out) = n + 1
               /\ out[1] = lo
               /\ out[n + 1] = hi
               /\ \A j \in 1..n : out[j] <= out[j + 1]

\* 3, 1, 2 were added to a sketch of buffer size 2 and Get(4) was called
C23_Witness ==
    /\ qout.op = "get"
    /\ qout.n = 4
    /\ qadded[qsnap.of] = <<3, 1, 2>>
    /\ qout.out = <<1, 1, 2, 3, 3>>

\* C24: MergeFrom between sketches of different buffer size returns the
\* not-mergeable error and changes neither the receiver nor the other sketch.
C24_MismatchUnchanged ==
    (qmrg.done /\ qs[1].bufferSize # qs[2].bufferSize) =>
       /\ qmrg.ab = [qs |-> qs[1], other |-> qs[2], err |-> "ErrNotMergeable"]
       /\ qmrg.ba = [qs |-> qs[2], other |-> qs[1], err |-> "ErrNotMergeable"]

\* sketches of different buffer size, both holding values, were merged both ways
C24_Witness ==
    /\ qmrg.done
    /\ qs[1].bufferSize # qs[2].bufferSize
    /\ qs[1].leaf # <<>>
    /\ qs[2].leaf # <<>>
    /\ qs[1].min # qs[2].min

\* C25: for two sketches of the same buffer size, merging copies either way round
\* gives two sketches, and Get(4) of the two is the same list.
C25_MergeCommutes ==
    (qmrg.done /\ qs[1].bufferSize = qs[2].bufferSize) =>
       /\ ~qmrg.ab.qs.panicked
       /\ ~qmrg.ba.qs.panicked
       /\ (qmout.op = "get" /\ qmout.n = 4) => qmout.out[1] = qmout.out[2]

\* whenever both merges of sketches of the same buffer size return, Get(n) of the two
\* merged sketches is the same list
MergedGetsAgree ==
    (qmout.op = "get" /\ qs[1].bufferSize = qs[2].bufferSize) => qmout.out[1] = qmout.out[2]

\* both merges returned for sketches holding different values, and Get(4) was called
MergedGetsWitness ==
    /\ qmout.op = "get"
    /\ qmout.n = 4
    /\ qs[1].bufferSize = qs[2].bufferSize
    /\ qadded[1] = <<3>>
    /\ qadded[2] = <<1, 2>>

(***************************************************************************)
(* Properties of inspection                                                *)
(***************************************************************************)
\* what an inspection that stops at the first error returns
FirstErr == IF cbErrs = <<>> THEN NoErr ELSE cbErrs[1]

\* C26: an inspection of one key, a key list or all keys, serial or concurrent, calls
\* no callback after a callback has returned an error, returns that error, returns
\* as count the number of callbacks that returned nil, and never calls the callback
\* for a key without a saw.
C26_StopsAtFirstError ==
    /\ lateCalls = 0
    /\ insp.pc = "done" => (insp.ret = FirstErr /\ insp.n = cbOk)
    /\ \A k \in cbKeys : items[ShardOf(k)][k] # NoItem

\* a serial inspection does all of that
SerialStopsAtFirstError ==
    ~insp.conc => C26_StopsAtFirstError

\* a concurrent inspection returns one of the errors returned, counts the callbacks
\* that returned nil, and skips the keys without a saw
ConcurrentCounts ==
    /\ (insp.pc = "done" /\ insp.conc) =>
          /\ insp.n = cbOk
          /\ cbErrs = <<>> => insp.ret = NoErr
          /\ cbErrs # <<>> => \E i \in 1..Len(cbErrs) : insp.ret = cbErrs[i]
    /\ \A k \in cbKeys : items[ShardOf(k)][k] # NoItem

\* a serial InspectSet over two shards has returned after one callback that
\* returned nil and one that returned an error
SerialWitness ==
    /\ insp.pc = "done"
    /\ insp.mode = "set"
    /\ ~insp.conc
    /\ insp.n = 1
    /\ insp.ret # NoErr
    /\ \E s \in Shards : ish[s].pc = "wait"

(***************************************************************************)
(* Properties of the collect table                                         *)
(***************************************************************************)
\* C27: Result closes every shard writer exactly once (no writer is ever closed
\* twice, and all are closed once Result has returned), and no Emit called after
\* Result has returned writes a record: it fails before it reaches a writer.
C27_ClosedOnceNoLateWrite ==
    /\ \A i \in PShards : cwr[i].closes <= 1
    /\ cres.returned >= 1 => \A i \in 0..(ctab.n0 - 1) : cwr[i].closes = 1
    /\ \A i \in PShards : cwr[i].lateWrites = 0
    /\ \A p \in CProcs : cfeed[p].late => cfeed[p].pc = "panicked"

\* records were written to two writers, Result was called twice, and an Emit
\* called after that has failed
C27_Witness ==
    /\ ctab.n0 = PersistShards
    /\ cres.returned = 2
    /\ cwr[1].writes = 1
    /\ cwr[2].writes = 1
    /\ \E p \in CProcs : cfeed[p].late /\ cfeed[p].pc = "panicked"

(***************************************************************************)
(* Properties of resource paths                                            *)
(***************************************************************************)
\* the string names a registered media: it goes on with "/", a media name and "/"
\* after the colon
NamesMedia(s) ==
    \E i \in 1..Len(s), md \in storageMediaMap :
       /\ s[i] = ":"
       /\ Len(s) >= i + Len(md) + 2
       /\ SubSeq(s, i + 1, i + Len(md) + 2) = <<"/">> \o md \o <<"/">>

\* C28: every well-formed resource path parses, and formatting the ResourceSpec
\* parsed from it gives the path again, relative and absolute local paths without a
\* media segment included.
C28_RoundTrip ==
    /\ rp.pc = "parsed" => rp.err = "nil"
    /\ rp.pc = "formatted" => rp.out = rp.s

\* a path that names its media comes back as it was
RoundTripWithMedia ==
    (rp.pc = "formatted" /\ NamesMedia(rp.s)) => rp.out = rp.s

\* tx:/gs/t/db@10 was parsed and formatted
RoundTripWitness ==
    /\ rp.pc = "formatted"
    /\ rp.s = <<"t", "x", ":", "/", "g", "s", "/", "t", "/", "d", "b", "@", "1", "0">>
    /\ rp.rc.Media = <<"g", "s">>
    /\ rp.rc.NumShards = 10

\* a local path without a media segment comes back with /lo put before it, a
\* relative one with /lo./
LocalPathsGainMedia ==
    (rp.pc = "formatted" /\ ~NamesMedia(rp.s)) =>
       \E i \in 1..Len(rp.s) :
          /\ rp.s[i] = ":"
          /\ rp.out = SubSeq(rp.s, 1, i) \o <<"/">> \o localMediaName
                      \o (IF rp.s[i + 1] = "/" THEN <<>> ELSE <<".", "/">>)
                      \o SubSeq(rp.s, i + 1, Len(rp.s))

(***************************************************************************)
(* Properties of the frames of the sliding window                          *)
(***************************************************************************)
\* the frames that are in a slot before the step and in none after it
Evicted == LiveFrames(win) \ LiveFrames(win')
\* the frames the step passes to asyncFinalize
NewlyScheduled == scheduled' \ scheduled
\* seq lies in the range of the window w
InRange(w, seq) == w.hasData /\ seq >= w.startSeq /\ seq < w.startSeq + WindowSize

\* a frame leaves its slot only by being passed to asyncFinalize, for the first time
EvictedAreScheduled ==
    [][Evicted \subseteq NewlyScheduled]_vars

\* a frame is passed to asyncFinalize only when it leaves its slot, and its seq is
\* then outside the range of the window
ScheduledAreEvicted ==
    [][/\ NewlyScheduled \subseteq Evicted
       /\ \A f \in NewlyScheduled : ~InRange(win', f.seq)]_vars

\* C29: every frame installed in the window is finalized exactly once: a frame leaves
\* its slot only by being passed to asyncFinalize, which happens to it once and only
\* when a slide or Window.Result evicts it, its seq then lying outside the window; no
\* live slot is overwritten or cleared otherwise.
C29_FramesFinalizedOnce ==
    [][/\ Evicted \subseteq NewlyScheduled
       /\ NewlyScheduled \subseteq Evicted
       /\ \A f \in NewlyScheduled : ~InRange(win', f.seq)]_vars

\* C30: no Window.Emit is about to call, or inside, frame.Emit on a frame that has
\* been passed to asyncFinalize.
C30_NoFeedAfterFinalize ==
    \A t \in WProcs :
       wth[t].pc \in {"feed", "feeding"} => wth[t].frame \notin scheduled

\* a frame is in no slot any more while a Window.Emit still holds it
HeldFrameEvicted ==
    \E t \in WProcs :
       /\ wth[t].pc \in {"feed", "feeding"}
       /\ wth[t].frame \in scheduled
       /\ wth[t].frame \in pending

(***************************************************************************)
(* Window.LatestFrame and a failing frame factory                          *)
(***************************************************************************)
\* prepareFrame has found or made a frame for the datum of goroutine t
Accepted(t) == wth[t].pc = "idle" /\ wth'[t].pc = "feed"

\* C31: LatestFrame on a window that holds data returns the greatest seq of a
\* datum accepted since the window was last empty together with the live frame
\* made for that seq, and a nil frame on a window with no data: so once a datum
\* with seq s is accepted, LatestFrame answers with the greater of s and what it
\* answered before, and with a live frame made for that seq.
C31_LatestIsGreatest ==
    [][\A t \in WProcs :
          Accepted(t) =>
              LET s == wth'[t].seq
                  was == LatestFrame(win)
                  now == LatestFrame(win')
              IN  /\ now.seq = IF win.hasData /\ was.seq > s THEN was.seq ELSE s
                  /\ now.frame # NoFrame
                  /\ now.frame.seq = now.seq]_vars

\* LatestFrame returns what the operator says of the window at the call: a nil
\* frame only on a window with no data or for a seq that has no live frame
LatestOnEmpty ==
    [][\A t \in WProcs :
          latestOut' # latestOut /\ ~win.hasData => latestOut' = [NoLatest EXCEPT !.called = TRUE]]_vars

\* C32: when the frame factory returns an error inside Window.Emit, the call
\* returns that error and the window's frames, startSeq, startIdx, latestSeq,
\* hasData, droppedCount and the frames sent to asyncFinalize are what they were.
C32_FactoryErrorNoChange ==
    [][\A t \in WProcs :
          wth[t].pc = "idle" /\ wth'[t].pc = "failed" =>
              /\ wth'[t].ret # NoErr
              /\ UNCHANGED <<win, droppedCount, pending, scheduled>>]_vars

\* the same with a factory that returns a nil Saw with every error
CleanFactoryErrorNoChange ==
    [][\A t \in WProcs :
          frameFactoryKind = "clean" /\ wth[t].pc = "idle" /\ wth'[t].pc = "failed" =>
              /\ wth'[t].ret # NoErr
              /\ UNCHANGED <<win, droppedCount, pending, scheduled>>]_vars

(***************************************************************************)
(* Specification of the shard index                                        *)
(***************************************************************************)
InitBaseIdle ==
    /\ InitCoreIdle
    /\ InitMetricsIdle
    /\ InitQuantIdle
    /\ InitInspIdle
    /\ InitCollectIdle
    /\ rp = RpIdle

InitShardIdx ==
    /\ InitBaseIdle
    /\ sx \in {[SxIdle EXCEPT !.hash = h, !.n = n] : h \in HashValues, n \in TableSizes}
    /\ fx = FxIdle
    /\ qinto = NoInto

NextShardIdx == \E c \in ShardCallers : ShardCall(c)

SpecShardIdx == InitShardIdx /\ [][NextShardIdx]_vars

\* C33: for every integer key_hash returns for a key, negative ones included,
\* the shard index MemTable.Emit, MemTable.Inspect and CollectTable.Emit compute
\* lies in [0, number of shards), is the same on every call, and the call
\* reaches a shard.
C33_ShardIndexValid ==
    /\ ~sx.panicked
    /\ \A c \in ShardCallers : \A i \in 1..Len(sx.calls[c]) :
          /\ IndexOk(sx.calls[c][i], sx.n)
          /\ \A d \in ShardCallers : \A j \in 1..Len(sx.calls[d]) :
                sx.calls[d][j] = sx.calls[c][i]

\* with a hash that is not negative the index is valid and stable
NonNegativeHashValid ==
    sx.hash >= 0 =>
        /\ ~sx.panicked
        /\ \A c \in ShardCallers : \A i \in 1..Len(sx.calls[c]) :
              sx.calls[c][i] = sx.hash % sx.n

\* the index is the same on every call also when it is out of range
SameIndexEveryCall ==
    \A c, d \in ShardCallers : \A i \in 1..Len(sx.calls[c]) : \A j \in 1..Len(sx.calls[d]) :
        sx.calls[d][j] = sx.calls[c][i]

(***************************************************************************)
(* Specification of collapse and mergeSampleStack as functions             *)
(***************************************************************************)
InitCollapse ==
    /\ InitBaseIdle
    /\ sx = SxIdle
    /\ qinto = NoInto
    /\ fx \in CollapseCalls(BufferSizes)

NextCollapse == CollapseCall

SpecCollapse == InitCollapse /\ [][NextCollapse]_vars

InitMergeStack ==
    /\ InitBaseIdle
    /\ sx = SxIdle
    /\ qinto = NoInto
    /\ fx \in MergeCalls(BufferSizes)

NextMergeStack == MergeStackCall

SpecMergeStack == InitMergeStack /\ [][NextMergeStack]_vars

\* every second element of s, from position `from` (counted from 0) on
RECURSIVE EverySecond(_, _)
EverySecond(s, from) ==
    IF from >= Len(s) THEN <<>> ELSE <<s[from + 1]>> \o EverySecond(s, from + 2)

\* what collapse is to return: picks are kept when (leftIdx+rightIdx)%2 equals
\* collapseFlip, so flip 1 keeps merged elements 0, 2, .. and flip 0 keeps 1, 3, ..
Sampled(left, right, flip) == EverySecond(SortMetrics(left \o right), 1 - flip)

\* C34: for either collapseFlip and any two sorted buffers of length b, collapse
\* returns b elements, sorted, that are every second element of the 2b merged
\* ones from index 0 or 1 on according to collapseFlip, writes only inside its
\* buffer, and toggles collapseFlip.
C34_CollapseSamples ==
    (fx.op = "collapse" /\ fx.done) =>
        /\ fx.ok
        /\ Len(fx.merged) = fx.q.bufferSize
        /\ fx.merged = Sampled(fx.left, fx.right, fx.q.collapseFlip)
        /\ \A i \in 1..(Len(fx.merged) - 1) : fx.merged[i] <= fx.merged[i + 1]
        /\ fx.after.collapseFlip = 1 - fx.q.collapseFlip

\* with collapseFlip = 1 collapse does as stated
CollapseFlipOne ==
    (fx.op = "collapse" /\ fx.done /\ fx.q.collapseFlip = 1) =>
        /\ fx.ok
        /\ fx.merged = Sampled(fx.left, fx.right, 1)
        /\ fx.after.collapseFlip = 0

\* with collapseFlip = 0 every call writes merged[bufferSize] and panics
CollapseFlipZero ==
    (fx.op = "collapse" /\ fx.done /\ fx.q.collapseFlip = 0) => ~fx.ok

\* level l of a sample stack, nil above its height
LevelOf(stack, l) == IF l < Len(stack) THEN stack[l + 1] ELSE NilBuf

\* the first empty level at or above `level`
FirstEmpty(stack, level) ==
    CHOOSE l \in level..(Len(stack) + level) :
        /\ LevelOf(stack, l) = NilBuf
        /\ \A k \in level..(l - 1) : LevelOf(stack, k) # NilBuf

\* C35: mergeSampleStack(level, buf) returns with the carried buffer at the
\* first empty level at or above `level`, every occupied level it passed empty,
\* the levels below `level` and above the landing level as they were, and the
\* stack extended as needed: also on an empty stack, when every level from
\* `level` up is occupied, and when `level` is above the stack's height.
C35_MergeLands ==
    (fx.op = "merge" /\ fx.done) =>
        LET before == fx.q.sampleStack
            now == fx.after.sampleStack
            at == FirstEmpty(before, fx.level)
        IN  /\ fx.ok
            /\ Len(now) = IF at + 1 > Len(before) THEN at + 1 ELSE Len(before)
            /\ LevelOf(now, at) # NilBuf
            /\ \A l \in 0..(Len(now) - 1) :
                  /\ l < fx.level => LevelOf(now, l) = LevelOf(before, l)
                  /\ (l >= fx.level /\ l < at) => LevelOf(now, l) = NilBuf
                  /\ l > at => LevelOf(now, l) = LevelOf(before, l)

\* the buffer lands and the call returns when an empty level is found inside the
\* stack and no collapse on the way writes past its buffer
MergeLandsInside ==
    (fx.op = "merge" /\ fx.done /\ fx.ok) =>
        LET before == fx.q.sampleStack
            now == fx.after.sampleStack
            at == FirstEmpty(before, fx.level)
        IN  /\ at < Len(before)
            /\ Len(now) = Len(before)
            /\ LevelOf(now, at) # NilBuf
            /\ \A l \in 0..(Len(now) - 1) :
                  /\ l < fx.level => LevelOf(now, l) = LevelOf(before, l)
                  /\ (l >= fx.level /\ l < at) => LevelOf(now, l) = NilBuf
                  /\ l > at => LevelOf(now, l) = LevelOf(before, l)

\* whenever the walk comes to the top of the stack the call panics
MergeAtTopPanics ==
    (fx.op = "merge" /\ fx.done
        /\ FirstEmpty(fx.q.sampleStack, fx.level) >= Len(fx.q.sampleStack)) => ~fx.ok

\* the call on an empty stack, where no collapse is made
MergeOnEmptyStack ==
    ~(fx.op = "merge" /\ fx.done /\ fx.q.sampleStack = <<>> /\ fx.level = 0 /\ fx.ok)

(***************************************************************************)
(* Specification of a quantile state that merges from another              *)
(***************************************************************************)
InitMergeInto ==
    /\ InitCoreIdle
    /\ InitExtraIdle
    /\ InitMetricsIdle
    /\ InitInspIdle
    /\ InitCollectIdle
    /\ rp = RpIdle
    /\ qs \in {[i \in Sketches |-> NewQuantileState(b)] : b \in BufferSizes}
    /\ qadded = [i \in Sketches |-> <<>>]
    /\ qsnap = NoSnap
    /\ qout = NoAnswer
    /\ qmrg = NoMerge
    /\ qmout = NoAnswer

NextMergeInto ==
    \/ \E i \in Sketches, metric \in Metrics : QAddMetric(i, metric)
    \/ QMergeInto
    \/ \E i \in Sketches : QSnapshot(i)

SpecMergeInto == InitMergeInto /\ [][NextMergeInto]_vars

\* C36: after qs[1].MergeFrom(qs[2]) with equal bufferSize, whichever of the two
\* is empty and whether or not the leaf of state 2 is empty, min and max of state
\* 1 are the smallest and largest value ever added to either, and stay the
\* running extrema when more values are added to state 1: At(0) and At(1) of its
\* snapshot return them.
C36_MergedExtrema ==
    qinto.calls > 0 =>
        /\ qinto.err = "nil"
        /\ ~qs[1].panicked
        /\ qadded[1] # <<>> =>
              /\ At(QResult(qs[1]), 0, 1) = MinOf(qadded[1])
              /\ At(QResult(qs[1]), 1, 1) = MaxOf(qadded[1])

\* as long as no call has panicked the extrema of the merged state are right
MergedExtremaWhileAlive ==
    (qinto.calls > 0 /\ ~qs[1].panicked /\ qadded[1] # <<>>) =>
        /\ At(QResult(qs[1]), 0, 1) = MinOf(qadded[1])
        /\ At(QResult(qs[1]), 1, 1) = MaxOf(qadded[1])

\* C37: after any sequence of AddMetric and MergeFrom calls on states of equal
\* bufferSize, every call has returned and the total weight of a state's
\* snapshot is the number of values added to it, directly or through the states
\* it merged from.
C37_WeightIsCount ==
    \A i \in Sketches :
        /\ ~qs[i].panicked
        /\ QResult(qs[i]).total = Len(qadded[i])

\* a state none of whose calls has panicked holds every value in its leaf, with
\* weight 1: no collapse has ever returned
AliveIsLeafOnly ==
    \A i \in Sketches :
        ~qs[i].panicked =>
            /\ qs[i].sampleStack = <<>>
            /\ QResult(qs[i]).total = Len(qadded[i])

(***************************************************************************)
(* Termination of the batch runner                                         *)
(***************************************************************************)
\* C38: under fair scheduling, with readers that come to end-of-file or fail
\* and subscribers that return, RunBatch returns whatever NumShards, the input
\* shard count and QueueBufferSize (0 included) are: producers blocked on full
\* queues, queue goroutines and the final join do not deadlock, and a shard
\* that cannot be opened or fails mid-stream does not stop the other shards.
C38_RunBatchReturns == <>(runner = "done")

\* RunBatch has returned from a run over unbuffered queues in which shard 0
\* could not be opened or failed at its first read and a record of shard 1
\* was published
C38_Witness ==
    /\ runner = "done"
    /\ bcfg[1].buf = 0 /\ bcfg[1].S = 2
    /\ \A t \in readRecs : t.b = 1 => t.s = 1
    /\ \E t \in readRecs : t.b = 1 /\ t.s = 1 /\ Publishes(t) # {}

\* no state but the final one is without a next step: nothing deadlocks
BatchNeverStuck == runner # "done" => ENABLED NextBatch

(***************************************************************************)
(* The counters of the hub                                                 *)
(***************************************************************************)
\* the publish of p counts a dead letter in this step
CountsDead(p) == pub[p].pc = "dead" /\ pub'[p].pc = "idle"
\* the publish of p counts a delivery to topic id in this step
CountsTopic(p, id) ==
    /\ pub[p].pc \in {"emit", "count"} /\ pub'[p].pc = "done"
    /\ pub[p].id = id

\* C39: the dead-letter counter changes only in a publish to a topic nobody
\* registered with, and the delivered counter of a registered topic changes
\* only in a publish to that topic, whatever the topic ids are ("DEAD"
\* included)
C39_CountersApart ==
    [][/\ deadLetterVar' # deadLetterVar => \E p \in PubProcs : CountsDead(p)
       /\ \A id \in DOMAIN hubTopics :
             topicCount'[id] # topicCount[id] => \E p \in PubProcs : CountsTopic(p, id)]_vars

\* the same for every topic id but "DEAD"
CountersApartOtherIds ==
    [][/\ deadLetterVar' # deadLetterVar =>
             \E p \in PubProcs : CountsDead(p) \/ CountsTopic(p, "DEAD")
       /\ \A id \in DOMAIN hubTopics \ {"DEAD"} :
             topicCount'[id] # topicCount[id] => \E p \in PubProcs : CountsTopic(p, id)]_vars

\* the dead letters and the deliveries to a topic "DEAD" are one number
DeadIsOneVar == topicCount["DEAD"] = deadLetterVar

\* topic "DEAD" has a subscriber and a delivery to it was counted: the
\* dead-letter counter says 1 and no publish went to an unknown topic
DeadCountedAsDelivery ==
    /\ "DEAD" \in DOMAIN hubTopics
    /\ pubCalls = [id \in DeadTopicIds |-> IF id = "DEAD" THEN 1 ELSE 0]
    /\ \A p \in PubProcs : pub[p].pc = "idle"
    /\ deadLetterVar = 1

(***************************************************************************)
(* NewCollectTable when a writer cannot be opened                          *)
(***************************************************************************)
\* NewCollectTable fails in this step
OpenFails == coll.state = "none" /\ coll'.state = "failed"

\* C40: when the writer of persistent shard i cannot be opened, the writers of
\* the shards below i were opened and are closed once each, no writer of i or
\* above is opened, the error is returned and there is no table; nothing
\* opens, closes or writes to a writer afterwards.
C40_OpenFailureClosesOpened ==
    [][/\ OpenFails =>
             \E i \in 0..(CollectShards(persist) - 1) :
                /\ fin'.finalErr = <<"open", "", i>>
                /\ coll'.n = 0
                /\ \A j \in PShards :
                      writers'[j] = IF j < i
                                    THEN [writers[j] EXCEPT !.opens = @ + 1, !.closes = @ + 1]
                                    ELSE writers[j]
       /\ coll.state = "failed" => (writers' = writers /\ coll' = coll)]_vars

\* after a failed NewCollectTable no writer is open
NoWriterLeftOpen ==
    coll.state = "failed" => \A j \in PShards : writers[j].opens = writers[j].closes

\* the writer of shard 2 of 3 could not be opened: the writers of shards 0 and
\* 1 were opened and closed, Result has returned the map with the error
C40_Witness ==
    /\ coll.state = "failed" /\ persist = PersistShards
    /\ fin.pc = "returned" /\ fin.finalErr # NoErr
    /\ \A j \in PShards :
          /\ writers[j].opens = (IF j < 2 THEN 1 ELSE 0)
          /\ writers[j].closes = (IF j < 2 THEN 1 ELSE 0)

====
